---- MODULE Spec2Model ----
(***************************************************************************)
(* Ramp control subsystem of the T8 DAQ system: the RampProfile data      *)
(* model (control/ramp_profile.py) and the RampExecutor state machine     *)
(* with its background scheduling loop (control/ramp_executor.py).        *)
(*                                                                         *)
(* One controlling context calls the public operations of one Executor;   *)
(* every operation is split at the points where the code releases the     *)
(* state lock, so the loop threads interleave with it as they can in the  *)
(* program.  Time is an integer clock in seconds; the Executor is built   *)
(* with update_interval_ms = 1000.                                        *)
(***************************************************************************)
EXTENDS Integers, Sequences, FiniteSets, TLC

\* ------------------------------------------------------------------ bounds
MaxTime == 2          \* the clock stops here
MaxThreads == 2       \* at most this many loop threads are alive at a time
MaxOps == 4           \* at most this many calls of the controlling context
MaxSteps == 3         \* longest generated trajectory handed to get_setpoint_at_time
MaxElapsed == 26      \* largest elapsed time of the range handed to it
PastEnd == 100        \* one elapsed time far past the end of every trajectory
MaxValidated == 2     \* longest generated profile handed to validate
MaxCallers == 2       \* contexts that call check_limits of the SafetyMonitor
MaxChecks == 3        \* at most this many check_limits calls
MaxAdmin == 1         \* at most this many administrative operations
MaxDebounce == 2      \* largest debounce count
MaxBuilt == 3         \* longest trajectory built by add_ramp/add_hold/add_step

\* --------------------------------------------------------------- constants
None == -1            \* Python None for optional numbers
UpdateInterval == 1   \* update_interval_sec of the modelled Executor
JoinTimeout == 2      \* self._thread.join(timeout=2.0)

IDLE == "idle"
RUNNING == "running"
PAUSED == "paused"
COMPLETED == "completed"
ERROR == "error"
ABORTED == "aborted"
ExecutorState == {IDLE, RUNNING, PAUSED, COMPLETED, ERROR, ABORTED}

RAMP == "ramp"
HOLD == "hold"
VOLTAGE == "voltage"
CURRENT == "current"

\* ------------------------------------------------------------ RampProfile
RampStep(ty, dur, tv, tc) ==
    [step_type |-> ty, duration_sec |-> dur, target_voltage |-> tv, target_current |-> tc]

RampProfile(mode, sv, sc, cl, vl, steps) ==
    [control_mode |-> mode, start_voltage |-> sv, start_current |-> sc,
     current_limit |-> cl, voltage_limit |-> vl, steps |-> steps]

\* The trajectories the controlling context may hand to load_profile.
\* Targets and durations are chosen so that every interpolation at a whole
\* second is exact.
Profiles == <<
    RampProfile(VOLTAGE, 0, 0, 5, 9, <<RampStep(RAMP, 1, 4, None), RampStep(HOLD, 1, None, None)>>),
    RampProfile(CURRENT, 1, 2, 5, 9, <<RampStep(RAMP, 2, None, 4)>>),
    RampProfile(VOLTAGE, 0, 0, 5, 9, <<>>),
    RampProfile(VOLTAGE, 0, 0, 5, 9, <<RampStep(RAMP, 1, None, 4)>>) >>

ProfileIds == 1..Len(Profiles)

RECURSIVE SumDurations(_, _)
SumDurations(steps, i) ==
    IF i > Len(steps) THEN 0 ELSE steps[i].duration_sec + SumDurations(steps, i + 1)

get_total_duration(p) == SumDurations(p.steps, 1)

RECURSIVE StepWalk(_, _, _, _)
StepWalk(steps, i, cumulative_time, elapsed_sec) ==
    IF i > Len(steps) THEN <<None, 0>>
    ELSE IF cumulative_time + steps[i].duration_sec > elapsed_sec
         THEN <<i - 1, elapsed_sec - cumulative_time>>
    ELSE StepWalk(steps, i + 1, cumulative_time + steps[i].duration_sec, elapsed_sec)

\* mutant of get_step_at_time: a negative elapsed time is not clamped
get_step_at_time_unclamped(p, elapsed_sec) ==
    StepWalk(p.steps, 1, 0, elapsed_sec)

\* (step_index, time_into_step) of the active step, the index 0-based;
\* (None, 0) when the profile is complete.  The step of the result is
\* steps[step_index].
get_step_at_time(p, elapsed_sec) ==
    StepWalk(p.steps, 1, 0, IF elapsed_sec < 0 THEN 0 ELSE elapsed_sec)

StepTarget(p, s) ==
    IF p.control_mode = CURRENT THEN s.target_current ELSE s.target_voltage

RECURSIVE SetpointWalk(_, _, _, _, _)
\* mutant of SetpointWalk: the end value of a passed Ramp is not carried on
SetpointWalkNoCarry(p, i, cumulative_time, current_val, elapsed_sec) ==
    IF i > Len(p.steps) THEN current_val
    ELSE LET step == p.steps[i]
             step_end_time == cumulative_time + step.duration_sec
             target == StepTarget(p, step)
         IN  IF elapsed_sec <= step_end_time
             THEN IF step.step_type = RAMP
                  THEN IF target = None THEN current_val
                       ELSE current_val
                            + ((target - current_val) * (elapsed_sec - cumulative_time))
                              \div step.duration_sec
                  ELSE current_val
             ELSE SetpointWalk(p, i + 1, step_end_time, current_val, elapsed_sec)

SetpointWalk(p, i, cumulative_time, current_val, elapsed_sec) ==
    IF i > Len(p.steps) THEN current_val
    ELSE LET step == p.steps[i]
             step_end_time == cumulative_time + step.duration_sec
             target == StepTarget(p, step)
         IN  IF elapsed_sec <= step_end_time
             THEN IF step.step_type = RAMP
                  THEN IF target = None THEN current_val
                       ELSE current_val
                            + ((target - current_val) * (elapsed_sec - cumulative_time))
                              \div step.duration_sec
                  ELSE current_val
             ELSE SetpointWalk(p, i + 1, step_end_time,
                               IF step.step_type = RAMP /\ target # None
                               THEN target ELSE current_val,
                               elapsed_sec)

\* mutant of get_setpoint_at_time: the start voltage is used in either mode
get_setpoint_at_time_voltage(p, elapsed_sec) ==
    IF elapsed_sec <= 0 THEN p.start_voltage
    ELSE IF Len(p.steps) = 0 THEN p.start_voltage
    ELSE SetpointWalk(p, 1, 0, p.start_voltage, elapsed_sec)

\* mutant of get_setpoint_at_time: an elapsed time <= 0 is interpolated too
get_setpoint_at_time_extrapolated(p, elapsed_sec) ==
    LET start_val == IF p.control_mode = CURRENT THEN p.start_current ELSE p.start_voltage
    IN  IF Len(p.steps) = 0 THEN start_val
        ELSE SetpointWalk(p, 1, 0, start_val, elapsed_sec)

get_setpoint_at_time(p, elapsed_sec) ==
    LET start_val == IF p.control_mode = CURRENT THEN p.start_current ELSE p.start_voltage
    IN  IF elapsed_sec <= 0 THEN start_val
        ELSE IF Len(p.steps) = 0 THEN start_val
        ELSE SetpointWalk(p, 1, 0, start_val, elapsed_sec)

get_final_voltage(p) == get_setpoint_at_time(p, get_total_duration(p))

\* "if cond: errors.append(reason)"
Entry(cond, reason, i) == IF cond THEN {<<reason, i>>} ELSE {}

\* the entries validate() appends for step i (1-based, as in its messages)
StepErrors(p, i) ==
    LET step == p.steps[i]
        target == StepTarget(p, step)
    IN  Entry(step.step_type \notin {RAMP, HOLD}, "invalid step type", i)
        \cup Entry(step.duration_sec <= 0, "duration must be positive", i)
        \cup Entry(step.step_type = RAMP /\ target = None, "ramp step missing target", i)
        \cup Entry(step.step_type = RAMP /\ target # None /\ target < 0, "target cannot be negative", i)

\* mutant of validate_errors: the start current is not examined
validate_errors_no_start_current(p) ==
    Entry(Len(p.steps) = 0, "no steps", 0)
    \cup Entry(p.control_mode \notin {VOLTAGE, CURRENT}, "invalid control mode", 0)
    \cup Entry(p.start_voltage < 0, "start voltage negative", 0)
    \cup Entry(p.current_limit <= 0, "current limit must be positive", 0)
    \cup Entry(p.voltage_limit <= 0, "voltage limit must be positive", 0)
    \cup UNION {StepErrors(p, i) : i \in 1..Len(p.steps)}

\* errors of RampProfile.validate(): every entry as (reason, step number),
\* the step number 0 for the entries about the profile itself
validate_errors(p) ==
    Entry(Len(p.steps) = 0, "no steps", 0)
    \cup Entry(p.control_mode \notin {VOLTAGE, CURRENT}, "invalid control mode", 0)
    \cup Entry(p.start_voltage < 0, "start voltage negative", 0)
    \cup Entry(p.start_current < 0, "start current negative", 0)
    \cup Entry(p.current_limit <= 0, "current limit must be positive", 0)
    \cup Entry(p.voltage_limit <= 0, "voltage limit must be positive", 0)
    \cup UNION {StepErrors(p, i) : i \in 1..Len(p.steps)}

\* is_valid of RampProfile.validate(): len(errors) == 0
validate(p) == validate_errors(p) = {}

\* ------------------------------------------------------------------ state
VARIABLES
    power_supply,        \* TRUE: a power-source collaborator is attached
    state,               \* self._state
    profile,             \* self._profile: 0 (None) or an index of Profiles
    start_time,          \* self._start_time (None or a clock value)
    pause_time,          \* self._pause_time
    paused_elapsed,      \* self._paused_elapsed
    current_setpoint,    \* self._current_setpoint
    current_step_index,  \* self._current_step_index
    error_message,       \* self._error_message
    stop_event,          \* self._stop_event
    pause_event,         \* self._pause_event
    thread,              \* self._thread: 0 (None) or the id of the latest loop thread
    run,                 \* the thread slot of the run start() began last
    lpc,                 \* position of every loop thread in _run_loop
    last_step_index,     \* local of _run_loop
    elapsed,             \* local of _run_loop
    lresult,             \* result of the power-source commands a loop issued last
    wake,                \* earliest clock value at which a sleeping loop goes on
    completions,         \* on_complete invocations of every loop thread
    cpc,                 \* position of the controlling context
    carg,                \* argument of the load_profile call in progress
    op,                  \* the call in progress, until its caller has its result
    call_state,          \* self._state when that call was made
    ret,                 \* its result
    result,              \* result of the power-source commands of the call in progress
    join_start,          \* clock value at which stop() started to join
    ops,                 \* number of calls made so far
    now,                 \* time.time()
    last_batch,          \* the commands the power source received last (one
                         \* command, or the zero/off commands of one try block)
    first_cmd,           \* per run, the first command the power source received
                         \* from start() or from the loop start() launched
    run_profile,         \* per run, the profile loaded when start() began it
    stop_returned,       \* stop() has returned and no start() began since
    callbacks_raise,     \* TRUE: every registered notification callback raises
    traj,                \* self of the RampProfile call under evaluation
    at,                  \* its elapsed_sec argument
    setpoint,            \* result of get_setpoint_at_time (None before the call)
    step_at,           \* result of get_step_at_time (empty before the call)
    validation,          \* result of validate (empty before the call)
    reloaded,            \* result of from_dict(to_dict(traj)) (empty before the call)
    raised,              \* the last operation on traj raised ValueError
    state_change,        \* the states the on_state_change calls carried, in order
    state_writes,        \* the states _set_state wrote to self._state, in order
    setting,             \* per context, the new_state of the _set_state call it
                         \* is in, between the write and the callback
    monitor,             \* the SafetyMonitor: its fields (0 while none is built)
    serial,              \* the same monitor were its check_limits calls made one
                         \* after the other, in the order they took the lock
    observed,            \* what the collaborators of the monitor have received
    caller,              \* per calling context, its check_limits call
    audit                \* bookkeeping about the calls made on the monitor

vars == <<power_supply, state, profile, start_time, pause_time, paused_elapsed,
          current_setpoint, current_step_index, error_message, stop_event,
          pause_event, thread, run, lpc, last_step_index, elapsed, lresult,
          wake, completions, cpc, carg, op, call_state, ret, result,
          join_start, ops, now, last_batch, first_cmd, run_profile,
          stop_returned, callbacks_raise, traj, at, setpoint, step_at,
          validation, reloaded, raised, state_change, state_writes, setting,
          monitor,
          serial, observed, caller, audit>>

fn_vars == <<traj, at, setpoint, step_at, validation>>
build_vars == <<reloaded, raised>>
notify_vars == <<state_change, state_writes, setting>>
monitor_vars == <<monitor, serial, observed, caller, audit>>
executor_vars == <<state, profile, start_time, pause_time, paused_elapsed,
                   current_setpoint, current_step_index, error_message>>
event_vars == <<stop_event, pause_event>>
loop_vars == <<lpc, last_step_index, elapsed, lresult, wake, completions>>
ctl_vars == <<cpc, carg, op, call_state, ret, result, join_start, ops>>
cmd_vars == <<last_batch, first_cmd>>

Threads == 1..MaxThreads
Results == {"ok", "false", "raise"}
NoCmd == [op |-> "none", val |-> 0, src |-> "none", run |-> 0]

\* a command as the power source receives it
Cmd(name, val, src, r) == [op |-> name, val |-> val, src |-> src, run |-> r]

\* RampExecutor.__init__, and the callbacks registered before the first call
Constructed(raising) ==
    /\ power_supply \in BOOLEAN
    /\ state = IDLE
    /\ profile = 0
    /\ start_time = None
    /\ pause_time = None
    /\ paused_elapsed = 0
    /\ current_setpoint = 0
    /\ current_step_index = 0
    /\ error_message = ""
    /\ stop_event = FALSE
    /\ pause_event = FALSE
    /\ thread = 0
    /\ run = 0
    /\ lpc = [t \in Threads |-> "unborn"]
    /\ last_step_index = [t \in Threads |-> -1]
    /\ elapsed = [t \in Threads |-> 0]
    /\ lresult = [t \in Threads |-> "none"]
    /\ wake = [t \in Threads |-> 0]
    /\ completions = [t \in Threads |-> 0]
    /\ cpc = "ready"
    /\ carg = 0
    /\ op = "none"
    /\ call_state = "none"
    /\ ret = TRUE
    /\ result = "none"
    /\ join_start = 0
    /\ ops = 0
    /\ now = 0
    /\ last_batch = <<>>
    /\ first_cmd = [t \in Threads |-> NoCmd]
    /\ run_profile = [t \in Threads |-> 0]
    /\ stop_returned = FALSE
    /\ callbacks_raise = raising

\* no RampProfile call is under evaluation
NoEvaluation ==
    /\ traj = None
    /\ at = 0
    /\ setpoint = None
    /\ step_at = <<>>
    /\ validation = <<>>
    /\ reloaded = <<>>
    /\ raised = FALSE

\* no _set_state call is followed: the write of the state and the callback
\* are one step of the operation that makes them
NoNotification ==
    /\ state_change = <<>>
    /\ state_writes = <<>>
    /\ setting = 0

\* no SafetyMonitor is built
NoMonitor ==
    /\ monitor = 0
    /\ serial = 0
    /\ observed = 0
    /\ caller = 0
    /\ audit = 0

Init == Constructed(FALSE) /\ NoEvaluation /\ NoNotification /\ NoMonitor

\* ------------------------------------------------------------- helpers
Exited(t) == lpc[t] \in {"exited_stop", "exited_error", "exited_done"}

\* threading.Thread.is_alive
is_alive(t) == lpc[t] # "unborn" /\ ~Exited(t)

get_elapsed_time ==
    IF start_time = None THEN 0
    ELSE IF state = PAUSED /\ pause_time # None
         THEN pause_time - start_time - paused_elapsed
         ELSE now - start_time - paused_elapsed

is_current_mode == Profiles[profile].control_mode = CURRENT

\* the start value of the loaded profile's control mode
StartValue ==
    IF is_current_mode THEN Profiles[profile].start_current
    ELSE Profiles[profile].start_voltage

\* mutant of LimitCmd: the limit of the ramped quantity is programmed
LimitCmdSwapped(r) ==
    IF is_current_mode
    THEN Cmd("set_current", Profiles[profile].current_limit, "start", r)
    ELSE Cmd("set_voltage", Profiles[profile].voltage_limit, "start", r)

\* start(): the protective limit of the quantity that is not ramped
LimitCmd(r) ==
    IF is_current_mode
    THEN Cmd("set_voltage", Profiles[profile].voltage_limit, "start", r)
    ELSE Cmd("set_current", Profiles[profile].current_limit, "start", r)

\* _run_loop: the setpoint of the ramped quantity
SetpointCmd(r) ==
    IF is_current_mode
    THEN Cmd("set_current", current_setpoint, "loop", r)
    ELSE Cmd("set_voltage", current_setpoint, "loop", r)

\* set_voltage(0.0); set_current(0.0); output_off() inside one try block:
\* the commands that are reached when the first two calls give r1 and r2
ZeroOff(src, r, r1, r2) ==
    IF r1 = "raise" THEN <<Cmd("set_voltage", 0, src, r)>>
    ELSE IF r2 = "raise" THEN <<Cmd("set_voltage", 0, src, r), Cmd("set_current", 0, src, r)>>
    ELSE <<Cmd("set_voltage", 0, src, r), Cmd("set_current", 0, src, r),
           Cmd("output_off", 0, src, r)>>

\* a loop thread is launched in the lowest slot that holds no live thread
FreeSlots == {t \in Threads : ~is_alive(t)}
NewSlot == CHOOSE t \in FreeSlots : \A u \in FreeSlots : t <= u

\* how the try block ended: "raise" when it was cut short
ZeroOffResult(r1, r2) ==
    IF r1 = "raise" \/ r2 = "raise" THEN "raise" ELSE "ok"

\* the first command of run r is remembered
NoteFirst(r, c) ==
    IF first_cmd[r] = NoCmd THEN [first_cmd EXCEPT ![r] = c] ELSE first_cmd

\* a callback invocation "try: callback(...) except Exception: pass": how it
\* ends, and whether the statements after the call site are reached
Callback == IF callbacks_raise THEN "swallowed" ELSE "returned"

\* mutant of Continues: the exception of a callback is not caught
ContinuesUncaught(outcome) == outcome = "returned"

Continues(outcome) == outcome \in {"returned", "swallowed"}

\* a call of the controlling context, and its return
Call(name) ==
    /\ cpc = "ready"
    /\ ops < MaxOps
    /\ ops' = ops + 1
    /\ op' = name
    /\ call_state' = state

Return(value) ==
    /\ cpc' = "returned"
    /\ ret' = value

\* the caller has the result; the next call can be made
return_to_caller ==
    /\ cpc = "returned"
    /\ cpc' = "ready"
    /\ op' = "none"
    /\ call_state' = "none"
    /\ ret' = TRUE
    /\ result' = "none"
    /\ carg' = 0
    /\ UNCHANGED <<power_supply, callbacks_raise, fn_vars, build_vars, notify_vars, monitor_vars, executor_vars, event_vars, thread, run,
                   loop_vars, join_start, ops, now, cmd_vars, run_profile,
                   stop_returned>>

\* ------------------------------------------------ load_profile(profile)
\* mutant of load_profile_check: the trajectory is not validated
load_profile_check_unvalidated ==
    /\ Call("load")
    /\ \E p \in ProfileIds :
        /\ carg' = p
        /\ IF state = RUNNING
           THEN Return(FALSE)
           ELSE cpc' = "load_set" /\ UNCHANGED ret
    /\ UNCHANGED <<power_supply, callbacks_raise, fn_vars, build_vars, notify_vars, monitor_vars, executor_vars, event_vars, thread, run,
                   loop_vars, result, join_start, now, cmd_vars, run_profile,
                   stop_returned>>

load_profile_check ==
    /\ Call("load")
    /\ \E p \in ProfileIds :
        /\ carg' = p
        /\ IF state = RUNNING \/ ~validate(Profiles[p])
           THEN Return(FALSE)
           ELSE cpc' = "load_set" /\ UNCHANGED ret
    /\ UNCHANGED <<power_supply, callbacks_raise, fn_vars, build_vars, notify_vars, monitor_vars, executor_vars, event_vars, thread, run,
                   loop_vars, result, join_start, now, cmd_vars, run_profile,
                   stop_returned>>

load_profile_set ==
    /\ cpc = "load_set"
    /\ profile' = carg
    /\ current_step_index' = 0
    /\ current_setpoint' = Profiles[carg].start_voltage
    /\ error_message' = ""
    /\ cpc' = "load_state"
    /\ UNCHANGED <<power_supply, callbacks_raise, fn_vars, build_vars, notify_vars, monitor_vars, state, start_time, pause_time, paused_elapsed,
                   event_vars, thread, run, loop_vars, carg, op, call_state,
                   ret, result, join_start, ops, now, cmd_vars, run_profile,
                   stop_returned>>

load_profile_state ==
    /\ cpc = "load_state"
    /\ state' = IDLE
    /\ Return(TRUE)
    /\ UNCHANGED <<power_supply, callbacks_raise, fn_vars, build_vars, notify_vars, monitor_vars, carg, profile, start_time, pause_time, paused_elapsed,
                   current_setpoint, current_step_index, error_message,
                   event_vars, thread, run, loop_vars, op, call_state,
                   result, join_start, ops, now, cmd_vars, run_profile,
                   stop_returned>>

\* ------------------------------------------------------------- resume()
\* the lock block of resume(): the just-ended pause is accumulated
ResumeAccumulate ==
    IF pause_time # None
    THEN /\ paused_elapsed' = paused_elapsed + (now - pause_time)
         /\ pause_time' = None
    ELSE UNCHANGED <<paused_elapsed, pause_time>>

resume_check ==
    /\ Call("resume")
    /\ IF state # PAUSED
       THEN Return(FALSE)
       ELSE cpc' = "resume_acc" /\ UNCHANGED ret
    /\ UNCHANGED <<power_supply, callbacks_raise, fn_vars, build_vars, notify_vars, monitor_vars, executor_vars, event_vars, thread, run,
                   loop_vars, carg, result, join_start, now, cmd_vars,
                   run_profile, stop_returned>>

resume_acc ==
    /\ cpc = "resume_acc"
    /\ ResumeAccumulate
    /\ cpc' = "resume_state"
    /\ UNCHANGED <<power_supply, callbacks_raise, fn_vars, build_vars, notify_vars, monitor_vars, state, profile, start_time, current_setpoint,
                   current_step_index, error_message, event_vars, thread,
                   run, loop_vars, carg, op, call_state, ret, result,
                   join_start, ops, now, cmd_vars, run_profile, stop_returned>>

resume_state ==
    /\ cpc = "resume_state"
    /\ pause_event' = FALSE
    /\ state' = RUNNING
    /\ Return(TRUE)
    /\ UNCHANGED <<power_supply, callbacks_raise, fn_vars, build_vars, notify_vars, monitor_vars, profile, start_time, pause_time, paused_elapsed,
                   current_setpoint, current_step_index, error_message,
                   stop_event, thread, run, loop_vars, carg, op, call_state,
                   result, join_start, ops, now, cmd_vars, run_profile,
                   stop_returned>>

\* -------------------------------------------------------------- start()
\* mutant of start_check: a start() while Paused begins a new run
start_check_restart ==
    /\ Call("start")
    /\ IF profile = 0 \/ state = RUNNING
       THEN /\ Return(FALSE)
            /\ UNCHANGED <<state, pause_time, paused_elapsed, pause_event,
                           run, first_cmd, run_profile, stop_returned>>
       ELSE /\ FreeSlots # {}
            /\ cpc' = "start_limits"
            /\ run' = NewSlot
            /\ first_cmd' = [first_cmd EXCEPT ![NewSlot] = NoCmd]
            /\ run_profile' = [run_profile EXCEPT ![NewSlot] = profile]
            /\ stop_returned' = FALSE
            /\ UNCHANGED <<ret, state, pause_time, paused_elapsed, pause_event>>
    /\ UNCHANGED <<power_supply, callbacks_raise, fn_vars, build_vars, notify_vars, monitor_vars, profile, start_time, current_setpoint,
                   current_step_index, error_message, stop_event, thread,
                   loop_vars, carg, result, join_start, now, last_batch>>

\* the first lock block: the rejections, and resume() when Paused (it runs
\* with the reentrant lock held, so in one step); a run begins otherwise
start_check ==
    /\ Call("start")
    /\ IF profile = 0 \/ state = RUNNING
       THEN /\ Return(FALSE)
            /\ UNCHANGED <<state, pause_time, paused_elapsed, pause_event,
                           run, first_cmd, run_profile, stop_returned>>
       ELSE IF state = PAUSED
       THEN /\ ResumeAccumulate
            /\ pause_event' = FALSE
            /\ state' = RUNNING
            /\ Return(TRUE)
            /\ UNCHANGED <<run, first_cmd, run_profile, stop_returned>>
       ELSE /\ FreeSlots # {}
            /\ cpc' = "start_limits"
            /\ run' = NewSlot
            /\ first_cmd' = [first_cmd EXCEPT ![NewSlot] = NoCmd]
            /\ run_profile' = [run_profile EXCEPT ![NewSlot] = profile]
            /\ stop_returned' = FALSE
            /\ UNCHANGED <<ret, state, pause_time, paused_elapsed, pause_event>>
    /\ UNCHANGED <<power_supply, callbacks_raise, fn_vars, build_vars, notify_vars, monitor_vars, profile, start_time, current_setpoint,
                   current_step_index, error_message, stop_event, thread,
                   loop_vars, carg, result, join_start, now, last_batch>>

\* start() reaches resume() inside its "with self._lock" block, so the
\* _set_state(RUNNING) of that resume() invokes on_state_change while the
\* calling context holds the lock; every other callback site of the
\* Executor is outside the lock blocks
callback_under_lock ==
    /\ cpc = "ready"
    /\ op' = "start"
    /\ state = PAUSED
    /\ state' = RUNNING

\* "Set initial limits if power supply is connected"
start_limits ==
    /\ cpc = "start_limits"
    /\ IF power_supply
       THEN \E res \in Results :
            /\ last_batch' = <<LimitCmd(run)>>
            /\ first_cmd' = NoteFirst(run, LimitCmd(run))
            /\ result' = res
            /\ IF res = "raise"
               THEN /\ error_message' = "Failed to set initial power supply limits"
                    /\ cpc' = "start_error"
                    /\ UNCHANGED current_setpoint
               ELSE /\ current_setpoint' = StartValue
                    /\ cpc' = "start_clear"
                    /\ UNCHANGED error_message
       ELSE /\ cpc' = "start_clear"
            /\ UNCHANGED <<cmd_vars, result, error_message, current_setpoint>>
    /\ UNCHANGED <<power_supply, callbacks_raise, fn_vars, build_vars, notify_vars, monitor_vars, state, profile, start_time, pause_time,
                   paused_elapsed, current_step_index, event_vars, thread,
                   run, loop_vars, carg, op, call_state, ret, join_start,
                   ops, now, run_profile, stop_returned>>

\* mutant of start_error: the failure is swallowed and the start goes on
start_error_ignored ==
    /\ cpc = "start_error"
    /\ cpc' = "start_clear"
    /\ UNCHANGED <<power_supply, callbacks_raise, fn_vars, build_vars, notify_vars, monitor_vars, executor_vars, event_vars, thread, run,
                   loop_vars, carg, op, call_state, ret, result, join_start, ops,
                   now, cmd_vars, run_profile, stop_returned>>

\* the except branch of start(): _set_state(ERROR); return False
start_error ==
    /\ cpc = "start_error"
    /\ state' = ERROR
    /\ Return(FALSE)
    /\ UNCHANGED <<power_supply, callbacks_raise, fn_vars, build_vars, notify_vars, monitor_vars, profile, start_time, pause_time, paused_elapsed,
                   current_setpoint, current_step_index, error_message,
                   event_vars, thread, run, loop_vars, carg, op, call_state,
                   result, join_start, ops, now, cmd_vars, run_profile,
                   stop_returned>>

start_clear ==
    /\ cpc = "start_clear"
    /\ stop_event' = FALSE
    /\ pause_event' = FALSE
    /\ result' = "none"
    /\ cpc' = "start_init"
    /\ UNCHANGED <<power_supply, callbacks_raise, fn_vars, build_vars, notify_vars, monitor_vars, executor_vars, thread, run, loop_vars,
                   carg, op, call_state, ret, join_start, ops, now, cmd_vars,
                   run_profile, stop_returned>>

\* mutant of start_init: the loop thread is launched before _set_state(RUNNING)
start_init_launch ==
    /\ cpc = "start_init"
    /\ start_time' = now
    /\ paused_elapsed' = 0
    /\ current_step_index' = 0
    /\ current_setpoint' = StartValue
    /\ cpc' = "start_state"
    /\ thread' = run
    /\ lpc' = [lpc EXCEPT ![run] = "top"]
    /\ last_step_index' = [last_step_index EXCEPT ![run] = -1]
    /\ elapsed' = [elapsed EXCEPT ![run] = 0]
    /\ wake' = [wake EXCEPT ![run] = 0]
    /\ completions' = [completions EXCEPT ![run] = 0]
    /\ UNCHANGED <<power_supply, callbacks_raise, fn_vars, build_vars, notify_vars, monitor_vars, state, profile, pause_time, error_message,
                   event_vars, run, lresult, carg, op, call_state,
                   ret, result, join_start, ops, now, cmd_vars, run_profile,
                   stop_returned>>

start_init ==
    /\ cpc = "start_init"
    /\ start_time' = now
    /\ paused_elapsed' = 0
    /\ current_step_index' = 0
    /\ current_setpoint' = StartValue
    /\ cpc' = "start_state"
    /\ UNCHANGED <<power_supply, callbacks_raise, fn_vars, build_vars, notify_vars, monitor_vars, state, profile, pause_time, error_message,
                   event_vars, thread, run, loop_vars, carg, op, call_state,
                   ret, result, join_start, ops, now, cmd_vars, run_profile,
                   stop_returned>>

\* _set_state(RUNNING), then threading.Thread(target=self._run_loop).start()
start_state ==
    /\ cpc = "start_state"
    /\ state' = RUNNING
    /\ cpc' = "start_thread"
    /\ UNCHANGED <<power_supply, callbacks_raise, fn_vars, build_vars, notify_vars, monitor_vars, profile, start_time, pause_time, paused_elapsed,
                   current_setpoint, current_step_index, error_message,
                   event_vars, thread, run, loop_vars, carg, op, call_state,
                   ret, result, join_start, ops, now, cmd_vars, run_profile,
                   stop_returned>>

start_thread ==
    /\ cpc = "start_thread"
    /\ thread' = run
    /\ lpc' = [lpc EXCEPT ![run] = "top"]
    /\ last_step_index' = [last_step_index EXCEPT ![run] = -1]
    /\ elapsed' = [elapsed EXCEPT ![run] = 0]
    /\ wake' = [wake EXCEPT ![run] = 0]
    /\ completions' = [completions EXCEPT ![run] = 0]
    /\ Return(TRUE)
    /\ UNCHANGED <<power_supply, callbacks_raise, fn_vars, build_vars, notify_vars, monitor_vars, executor_vars, event_vars, run, lresult, carg,
                   op, call_state, result, join_start, ops, now, cmd_vars,
                   run_profile, stop_returned>>

\* --------------------------------------------------------------- stop()
stop_signal ==
    /\ Call("stop")
    /\ stop_event' = TRUE
    /\ pause_event' = TRUE
    /\ join_start' = now
    /\ cpc' = "stop_join"
    /\ UNCHANGED <<power_supply, callbacks_raise, fn_vars, build_vars, notify_vars, monitor_vars, executor_vars, thread, run, loop_vars,
                   carg, ret, result, now, cmd_vars, run_profile, stop_returned>>

\* join(timeout=2.0) of the latest thread: it is not alive, or the timeout
\* has passed on the clock
stop_join ==
    /\ cpc = "stop_join"
    /\ \/ thread = 0
       \/ thread # 0 /\ ~is_alive(thread)
       \/ now >= join_start + JoinTimeout
    /\ join_start' = 0
    /\ cpc' = "stop_cmds"
    /\ UNCHANGED <<power_supply, callbacks_raise, fn_vars, build_vars, notify_vars, monitor_vars, executor_vars, event_vars, thread, run,
                   loop_vars, carg, op, call_state, ret, result, ops, now,
                   cmd_vars, run_profile, stop_returned>>

\* "Set voltage/current to 0 and turn off output for safety"
stop_cmds ==
    /\ cpc = "stop_cmds"
    /\ IF power_supply
       THEN \E r1, r2 \in Results :
            /\ last_batch' = ZeroOff("stop", 0, r1, r2)
            /\ result' = ZeroOffResult(r1, r2)
       ELSE UNCHANGED <<last_batch, result>>
    /\ cpc' = "stop_clear"
    /\ UNCHANGED <<power_supply, callbacks_raise, fn_vars, build_vars, notify_vars, monitor_vars, executor_vars, event_vars, thread, run,
                   loop_vars, carg, op, call_state, ret, join_start, ops, now,
                   first_cmd, run_profile, stop_returned>>

stop_clear ==
    /\ cpc = "stop_clear"
    /\ start_time' = None
    /\ pause_time' = None
    /\ paused_elapsed' = 0
    /\ current_step_index' = 0
    /\ cpc' = "stop_state"
    /\ UNCHANGED <<power_supply, callbacks_raise, fn_vars, build_vars, notify_vars, monitor_vars, state, profile, current_setpoint, error_message,
                   event_vars, thread, run, loop_vars, carg, op, call_state,
                   ret, result, join_start, ops, now, cmd_vars, run_profile,
                   stop_returned>>

stop_state ==
    /\ cpc = "stop_state"
    /\ state' = ABORTED
    /\ stop_returned' = TRUE
    /\ Return(TRUE)
    /\ UNCHANGED <<power_supply, callbacks_raise, fn_vars, build_vars, notify_vars, monitor_vars, profile, start_time, pause_time, paused_elapsed,
                   current_setpoint, current_step_index, error_message,
                   event_vars, thread, run, loop_vars, carg, op, call_state,
                   result, join_start, ops, now, cmd_vars, run_profile>>

\* -------------------------------------------------------------- pause()
pause_check ==
    /\ Call("pause")
    /\ IF state # RUNNING
       THEN Return(FALSE)
       ELSE cpc' = "pause_set" /\ UNCHANGED ret
    /\ UNCHANGED <<power_supply, callbacks_raise, fn_vars, build_vars, notify_vars, monitor_vars, executor_vars, event_vars, thread, run,
                   loop_vars, carg, result, join_start, now, cmd_vars,
                   run_profile, stop_returned>>

pause_set ==
    /\ cpc = "pause_set"
    /\ pause_event' = TRUE
    /\ pause_time' = now
    /\ cpc' = "pause_state"
    /\ UNCHANGED <<power_supply, callbacks_raise, fn_vars, build_vars, notify_vars, monitor_vars, state, profile, start_time, paused_elapsed,
                   current_setpoint, current_step_index, error_message,
                   stop_event, thread, run, loop_vars, carg, op, call_state,
                   ret, result, join_start, ops, now, cmd_vars, run_profile,
                   stop_returned>>

pause_state ==
    /\ cpc = "pause_state"
    /\ state' = PAUSED
    /\ Return(TRUE)
    /\ UNCHANGED <<power_supply, callbacks_raise, fn_vars, build_vars, notify_vars, monitor_vars, profile, start_time, pause_time, paused_elapsed,
                   current_setpoint, current_step_index, error_message,
                   event_vars, thread, run, loop_vars, carg, op, call_state,
                   result, join_start, ops, now, cmd_vars, run_profile,
                   stop_returned>>

\* ----------------------------------------------------------- _run_loop
\* mutant of run_loop_top: the loop also ends when the safety monitor has
\* triggered a shutdown
run_loop_top_interlocked(t) ==
    /\ lpc[t] = "top"
    /\ now >= wake[t]
    /\ IF stop_event \/ monitor.status = "shutdown_triggered"
       THEN /\ lpc' = [lpc EXCEPT ![t] = "after"]
            /\ UNCHANGED elapsed
       ELSE IF pause_event
       THEN UNCHANGED <<lpc, elapsed>>
       ELSE /\ elapsed' = [elapsed EXCEPT ![t] = get_elapsed_time]
            /\ lpc' = [lpc EXCEPT ![t] = "calc"]
    /\ UNCHANGED <<power_supply, callbacks_raise, fn_vars, build_vars, notify_vars, monitor_vars, executor_vars, event_vars, thread, run,
                   last_step_index, lresult, wake, completions, ctl_vars,
                   now, cmd_vars, run_profile, stop_returned>>

\* "while not self._stop_event.is_set()", the pause poll, and the read of
\* the elapsed time; a sleeping loop goes on when its sleep is over
run_loop_top(t) ==
    /\ lpc[t] = "top"
    /\ now >= wake[t]
    /\ IF stop_event
       THEN /\ lpc' = [lpc EXCEPT ![t] = "after"]
            /\ UNCHANGED elapsed
       ELSE IF pause_event
       THEN UNCHANGED <<lpc, elapsed>>
       ELSE /\ elapsed' = [elapsed EXCEPT ![t] = get_elapsed_time]
            /\ lpc' = [lpc EXCEPT ![t] = "calc"]
    /\ UNCHANGED <<power_supply, callbacks_raise, fn_vars, build_vars, notify_vars, monitor_vars, executor_vars, event_vars, thread, run,
                   last_step_index, lresult, wake, completions, ctl_vars,
                   now, cmd_vars, run_profile, stop_returned>>

\* the lock block of a tick
run_loop_calc(t) ==
    /\ lpc[t] = "calc"
    /\ IF profile = 0
       THEN /\ lpc' = [lpc EXCEPT ![t] = "after"]
            /\ UNCHANGED <<current_setpoint, current_step_index>>
       ELSE IF elapsed[t] >= get_total_duration(Profiles[profile])
       THEN /\ current_setpoint' = get_final_voltage(Profiles[profile])
            /\ lpc' = [lpc EXCEPT ![t] = "after"]
            /\ UNCHANGED current_step_index
       ELSE /\ current_setpoint' = get_setpoint_at_time(Profiles[profile], elapsed[t])
            /\ current_step_index' =
                   LET step_info == get_step_at_time(Profiles[profile], elapsed[t])
                   IN  IF step_info[1] # None THEN step_info[1] ELSE current_step_index
            /\ lpc' = [lpc EXCEPT ![t] = "step"]
    /\ UNCHANGED <<power_supply, callbacks_raise, fn_vars, build_vars, notify_vars, monitor_vars, state, profile, start_time, pause_time,
                   paused_elapsed, error_message, event_vars, thread, run,
                   last_step_index, elapsed, lresult, wake, completions,
                   ctl_vars, now, cmd_vars, run_profile, stop_returned>>

\* "Notify step change"
run_loop_step(t) ==
    /\ lpc[t] = "step"
    /\ last_step_index' = [last_step_index EXCEPT ![t] = current_step_index]
    /\ lpc' = [lpc EXCEPT ![t] =
                  IF current_step_index # last_step_index[t] /\ ~Continues(Callback)
                  THEN "exited_error" ELSE "send"]
    /\ UNCHANGED <<power_supply, callbacks_raise, fn_vars, build_vars, notify_vars, monitor_vars, executor_vars, event_vars, thread, run,
                   elapsed, lresult, wake, completions, ctl_vars, now,
                   cmd_vars, run_profile, stop_returned>>

\* "Send setpoint to power supply"
run_loop_send(t) ==
    /\ lpc[t] = "send"
    /\ IF power_supply
       THEN \E res \in Results :
            /\ last_batch' = <<SetpointCmd(t)>>
            /\ first_cmd' = NoteFirst(t, SetpointCmd(t))
            /\ lresult' = [lresult EXCEPT ![t] = res]
            /\ IF res = "raise"
               THEN /\ error_message' = "Failed to set setpoint"
                    /\ lpc' = [lpc EXCEPT ![t] = "error"]
               ELSE /\ lpc' = [lpc EXCEPT ![t] = "sent"]
                    /\ UNCHANGED error_message
       ELSE /\ lpc' = [lpc EXCEPT ![t] = "sent"]
            /\ UNCHANGED <<cmd_vars, lresult, error_message>>
    /\ UNCHANGED <<power_supply, callbacks_raise, fn_vars, build_vars, notify_vars, monitor_vars, state, profile, start_time, pause_time,
                   paused_elapsed, current_setpoint, current_step_index,
                   event_vars, thread, run, last_step_index, elapsed, wake,
                   completions, ctl_vars, now, run_profile, stop_returned>>

\* mutant of run_loop_error: the error path forces the outputs to zero
run_loop_error_zero(t) ==
    /\ lpc[t] = "error"
    /\ state' = ERROR
    /\ last_batch' = ZeroOff("error", t, "ok", "ok")
    /\ lresult' = [lresult EXCEPT ![t] = "none"]
    /\ lpc' = [lpc EXCEPT ![t] = "exited_error"]
    /\ UNCHANGED <<power_supply, callbacks_raise, fn_vars, build_vars, notify_vars, monitor_vars, profile, start_time, pause_time, paused_elapsed,
                   current_setpoint, current_step_index, error_message,
                   event_vars, thread, run, last_step_index, elapsed, wake,
                   completions, ctl_vars, now, first_cmd, run_profile,
                   stop_returned>>

\* the except branch of a tick: on_error, _set_state(ERROR), return
run_loop_error(t) ==
    /\ lpc[t] = "error"
    /\ state' = IF Continues(Callback) THEN ERROR ELSE state
    /\ lresult' = [lresult EXCEPT ![t] = "none"]
    /\ lpc' = [lpc EXCEPT ![t] = "exited_error"]
    /\ UNCHANGED <<power_supply, callbacks_raise, fn_vars, build_vars, notify_vars, monitor_vars, profile, start_time, pause_time, paused_elapsed,
                   current_setpoint, current_step_index, error_message,
                   event_vars, thread, run, last_step_index, elapsed, wake, completions, ctl_vars, now, cmd_vars, run_profile,
                   stop_returned>>

\* "Notify setpoint change" and "Wait for next update"
run_loop_sleep(t) ==
    /\ lpc[t] = "sent"
    /\ lresult' = [lresult EXCEPT ![t] = "none"]
    /\ wake' = [wake EXCEPT ![t] = now + UpdateInterval]
    /\ lpc' = [lpc EXCEPT ![t] = IF Continues(Callback) THEN "top" ELSE "exited_error"]
    /\ UNCHANGED <<power_supply, callbacks_raise, fn_vars, build_vars, notify_vars, monitor_vars, executor_vars, event_vars, thread, run,
                   last_step_index, elapsed, completions, ctl_vars, now,
                   cmd_vars, run_profile, stop_returned>>

\* "if not self._stop_event.is_set()" after the loop
run_loop_after(t) ==
    /\ lpc[t] = "after"
    /\ lpc' = [lpc EXCEPT ![t] = IF stop_event THEN "exited_stop" ELSE "zero"]
    /\ UNCHANGED <<power_supply, callbacks_raise, fn_vars, build_vars, notify_vars, monitor_vars, executor_vars, event_vars, thread, run,
                   last_step_index, elapsed, lresult, wake, completions,
                   ctl_vars, now, cmd_vars, run_profile, stop_returned>>

\* mutant of run_loop_zero: the output is left on after the last step
run_loop_zero_no_off(t) ==
    /\ lpc[t] = "zero"
    /\ IF power_supply
       THEN /\ last_batch' = ZeroOff("complete", t, "ok", "raise")
            /\ first_cmd' = NoteFirst(t, ZeroOff("complete", t, "ok", "raise")[1])
            /\ lresult' = [lresult EXCEPT ![t] = "ok"]
       ELSE UNCHANGED <<cmd_vars, lresult>>
    /\ lpc' = [lpc EXCEPT ![t] = "record"]
    /\ UNCHANGED <<power_supply, callbacks_raise, fn_vars, build_vars, notify_vars, monitor_vars, executor_vars, event_vars, thread, run,
                   last_step_index, elapsed, wake, completions, ctl_vars, now,
                   run_profile, stop_returned>>

\* "Ramp is done - set voltage/current to 0 and turn off output"
run_loop_zero(t) ==
    /\ lpc[t] = "zero"
    /\ IF power_supply
       THEN \E r1, r2 \in Results :
            /\ last_batch' = ZeroOff("complete", t, r1, r2)
            /\ first_cmd' = NoteFirst(t, ZeroOff("complete", t, r1, r2)[1])
            /\ lresult' = [lresult EXCEPT ![t] = ZeroOffResult(r1, r2)]
       ELSE UNCHANGED <<cmd_vars, lresult>>
    /\ lpc' = [lpc EXCEPT ![t] = "record"]
    /\ UNCHANGED <<power_supply, callbacks_raise, fn_vars, build_vars, notify_vars, monitor_vars, executor_vars, event_vars, thread, run,
                   last_step_index, elapsed, wake, completions, ctl_vars, now,
                   run_profile, stop_returned>>

run_loop_record(t) ==
    /\ lpc[t] = "record"
    /\ current_setpoint' = 0
    /\ lresult' = [lresult EXCEPT ![t] = "none"]
    /\ lpc' = [lpc EXCEPT ![t] = "completed"]
    /\ UNCHANGED <<power_supply, callbacks_raise, fn_vars, build_vars, notify_vars, monitor_vars, state, profile, start_time, pause_time,
                   paused_elapsed, current_step_index, error_message,
                   event_vars, thread, run, last_step_index, elapsed, wake,
                   completions, ctl_vars, now, cmd_vars, run_profile,
                   stop_returned>>

run_loop_completed(t) ==
    /\ lpc[t] = "completed"
    /\ state' = COMPLETED
    /\ lpc' = [lpc EXCEPT ![t] = IF Continues(Callback) THEN "notify" ELSE "exited_error"]
    /\ UNCHANGED <<power_supply, callbacks_raise, fn_vars, build_vars, notify_vars, monitor_vars, profile, start_time, pause_time, paused_elapsed,
                   current_setpoint, current_step_index, error_message,
                   event_vars, thread, run, last_step_index, elapsed,
                   lresult, wake, completions, ctl_vars, now, cmd_vars,
                   run_profile, stop_returned>>

\* self._on_complete()
run_loop_notify(t) ==
    /\ lpc[t] = "notify"
    /\ completions' = [completions EXCEPT ![t] = @ + 1]
    /\ lpc' = [lpc EXCEPT ![t] = "exited_done"]
    /\ UNCHANGED <<power_supply, callbacks_raise, fn_vars, build_vars, notify_vars, monitor_vars, executor_vars, event_vars, thread, run,
                   last_step_index, elapsed, lresult, wake, ctl_vars, now,
                   cmd_vars, run_profile, stop_returned>>

\* ------------------------------------------------------------ the clock
Tick ==
    /\ now < MaxTime
    /\ now' = now + 1
    /\ UNCHANGED <<power_supply, callbacks_raise, fn_vars, build_vars, notify_vars, monitor_vars, executor_vars, event_vars, thread, run,
                   loop_vars, ctl_vars, cmd_vars, run_profile, stop_returned>>

Next ==
    \/ load_profile_check
    \/ load_profile_set
    \/ load_profile_state
    \/ start_check
    \/ start_limits
    \/ start_error
    \/ start_clear
    \/ start_init
    \/ start_state
    \/ start_thread
    \/ stop_signal
    \/ stop_join
    \/ stop_cmds
    \/ stop_clear
    \/ stop_state
    \/ pause_check
    \/ pause_set
    \/ pause_state
    \/ resume_check
    \/ resume_acc
    \/ resume_state
    \/ return_to_caller
    \/ \E t \in Threads : run_loop_top(t)
    \/ \E t \in Threads : run_loop_calc(t)
    \/ \E t \in Threads : run_loop_step(t)
    \/ \E t \in Threads : run_loop_send(t)
    \/ \E t \in Threads : run_loop_error(t)
    \/ \E t \in Threads : run_loop_sleep(t)
    \/ \E t \in Threads : run_loop_after(t)
    \/ \E t \in Threads : run_loop_zero(t)
    \/ \E t \in Threads : run_loop_record(t)
    \/ \E t \in Threads : run_loop_completed(t)
    \/ \E t \in Threads : run_loop_notify(t)
    \/ Tick

Spec == Init /\ [][Next]_vars

\* the same Executor with callbacks that raise at every invocation
ObserverInit == Constructed(TRUE) /\ NoEvaluation /\ NoNotification /\ NoMonitor

ObserverSpec == ObserverInit /\ [][Next]_vars

\* ------------------------------------- RampProfile.get_setpoint_at_time
\* The trajectories and elapsed times it is evaluated on: every trajectory
\* of up to MaxSteps steps over the durations and levels below, in both
\* control modes, and one longer trajectory: a Ramp to 10 in 10 s, a Hold
\* of 5 s and a Ramp to 0 in 10 s, from 0.
\* Every interpolation at a whole second is exact on them.
Durations == {1, 2}
Levels == {0, 4}

StepsOf(mode) ==
    {RampStep(RAMP, d, IF mode = VOLTAGE THEN v ELSE None,
                       IF mode = CURRENT THEN v ELSE None) : d \in Durations, v \in Levels}
    \cup {RampStep(HOLD, d, None, None) : d \in Durations}

StepSeqs(mode) == UNION {[1..k -> StepsOf(mode)] : k \in 0..MaxSteps}

ThreeSegmentProfile ==
    RampProfile(VOLTAGE, 0, 0, 50, 100,
                <<RampStep(RAMP, 10, 10, None), RampStep(HOLD, 5, None, None),
                  RampStep(RAMP, 10, 0, None)>>)

Trajectories ==
    {RampProfile(VOLTAGE, v, 1, 5, 9, st) : v \in Levels, st \in StepSeqs(VOLTAGE)}
    \cup {RampProfile(CURRENT, 1, v, 5, 9, st) : v \in Levels, st \in StepSeqs(CURRENT)}
    \cup {ThreeSegmentProfile}

Times == (-1..MaxElapsed) \cup {PastEnd}

ProfileInit ==
    /\ Constructed(FALSE)
    /\ ~power_supply
    /\ traj \in Trajectories
    /\ at \in Times
    /\ setpoint = None
    /\ step_at = <<>>
    /\ validation = <<>>
    /\ reloaded = <<>>
    /\ raised = FALSE
    /\ NoNotification
    /\ NoMonitor

\* traj.get_setpoint_at_time(at)
evaluate_setpoint ==
    /\ setpoint = None
    /\ setpoint' = get_setpoint_at_time(traj, at)
    /\ UNCHANGED <<power_supply, callbacks_raise, build_vars, notify_vars, monitor_vars, executor_vars, event_vars,
                   thread, run, loop_vars, ctl_vars, now, cmd_vars, run_profile,
                   stop_returned, traj, at, step_at, validation>>

\* traj.get_step_at_time(at)
evaluate_step ==
    /\ step_at = <<>>
    /\ step_at' = get_step_at_time(traj, at)
    /\ UNCHANGED <<power_supply, callbacks_raise, build_vars, notify_vars, monitor_vars, executor_vars, event_vars,
                   thread, run, loop_vars, ctl_vars, now, cmd_vars, run_profile,
                   stop_returned, traj, at, setpoint, validation>>

ProfileNext == evaluate_setpoint \/ evaluate_step

ProfileSpec == ProfileInit /\ [][ProfileNext]_vars

\* ------------------------------------------------- RampProfile.validate
\* The profiles validate() is evaluated on: every combination of a control
\* mode (one of them unknown), start values and limits on both sides of
\* their bounds, and up to MaxValidated steps: Ramp steps over durations on
\* both sides of zero and targets that are missing, negative or positive,
\* and steps of the other types (one of them unknown) over the same
\* durations, without a target or with a negative one.  The fields of a RampProfile and of a
\* RampStep are plain attributes, so every combination can be built.
StartValues == {-2, 0}
LimitValues == {0, 5}
ControlModes == {VOLTAGE, CURRENT, "power"}
StepTypes == {RAMP, HOLD, "dwell"}
StepDurations == {0, 1}
Targets == {None, -2, 4}

CandidateSteps ==
    {RampStep(RAMP, d, tv, tc) : d \in StepDurations, tv \in Targets, tc \in Targets}
    \cup {RampStep(ty, d, None, tc) :
              ty \in StepTypes \ {RAMP}, d \in StepDurations, tc \in Targets \ {4}}

Candidates ==
    {RampProfile(m, sv, sc, cl, vl, st) :
        m \in ControlModes, sv \in StartValues, sc \in StartValues,
        cl \in LimitValues, vl \in LimitValues,
        st \in UNION {[1..k -> CandidateSteps] : k \in 0..MaxValidated}}

ValidateInit ==
    /\ Constructed(FALSE)
    /\ ~power_supply
    /\ traj \in Candidates
    /\ at = 0
    /\ setpoint = None
    /\ step_at = <<>>
    /\ validation = <<>>
    /\ reloaded = <<>>
    /\ raised = FALSE
    /\ NoNotification
    /\ NoMonitor

\* traj.validate()
evaluate_validate ==
    /\ validation = <<>>
    /\ validation' = <<validate(traj), validate_errors(traj)>>
    /\ UNCHANGED <<power_supply, callbacks_raise, build_vars, notify_vars, monitor_vars, executor_vars, event_vars,
                   thread, run, loop_vars, ctl_vars, now, cmd_vars, run_profile,
                   stop_returned, traj, at, setpoint, step_at>>

ValidateNext == evaluate_validate

ValidateSpec == ValidateInit /\ [][ValidateNext]_vars

\* ------------------------------- RampProfile: construction, serialization
\* A trajectory object with its name and description; a Python dict is a
\* function from its keys.
DefaultCurrentLimit == 50
DefaultVoltageLimit == 100

NamedProfile(name, description, p) ==
    [name |-> name, description |-> description,
     control_mode |-> p.control_mode, start_voltage |-> p.start_voltage,
     start_current |-> p.start_current, current_limit |-> p.current_limit,
     voltage_limit |-> p.voltage_limit, steps |-> p.steps]

\* the outcome of a call: the value it returns, or the ValueError it raises
Returned(value) == [ok |-> TRUE, value |-> value]
Raised == [ok |-> FALSE]

\* RampStep.__post_init__ accepts the step
post_init(ty, dur, tv, tc) ==
    /\ ty \in {RAMP, HOLD}
    /\ dur > 0
    /\ ty = RAMP => ~(tv = None /\ tc = None)
    /\ tv # None => tv >= 0
    /\ tc # None => tc >= 0

\* RampStep(step_type, duration_sec, target_voltage, target_current)
NewRampStep(ty, dur, tv, tc) ==
    IF post_init(ty, dur, tv, tc) THEN Returned(RampStep(ty, dur, tv, tc))
    ELSE Raised

\* dict.get(key, default)
Get(data, key, default) == IF key \in DOMAIN data THEN data[key] ELSE default

\* RampStep.to_dict
RampStep_to_dict(step) ==
    LET keys == {"type", "duration_sec"}
                \cup (IF step.target_voltage # None THEN {"target_voltage"} ELSE {})
                \cup (IF step.target_current # None THEN {"target_current"} ELSE {})
    IN  [k \in keys |->
            CASE k = "type" -> step.step_type
              [] k = "duration_sec" -> step.duration_sec
              [] k = "target_voltage" -> step.target_voltage
              [] k = "target_current" -> step.target_current]

\* mutant of RampStep_from_dict: the step type is read from "step_type"
RampStep_from_dict_step_type(data) ==
    NewRampStep(Get(data, "step_type", HOLD), Get(data, "duration_sec", 0),
                Get(data, "target_voltage", None), Get(data, "target_current", None))

\* RampStep.from_dict
RampStep_from_dict(data) ==
    NewRampStep(Get(data, "type", HOLD), Get(data, "duration_sec", 0),
                Get(data, "target_voltage", None), Get(data, "target_current", None))

\* RampProfile.to_dict
to_dict(p) ==
    [name |-> p.name, description |-> p.description,
     control_mode |-> p.control_mode, start_voltage |-> p.start_voltage,
     start_current |-> p.start_current, current_limit |-> p.current_limit,
     voltage_limit |-> p.voltage_limit,
     steps |-> [i \in 1..Len(p.steps) |-> RampStep_to_dict(p.steps[i])]]

\* RampProfile.from_dict: a step that is not accepted raises out of it
from_dict(data) ==
    LET step_data == Get(data, "steps", <<>>)
        made == [i \in 1..Len(step_data) |-> RampStep_from_dict(step_data[i])]
    IN  IF \E i \in 1..Len(step_data) : ~made[i].ok THEN Raised
        ELSE Returned(
               [name |-> Get(data, "name", "Untitled Profile"),
                description |-> Get(data, "description", ""),
                control_mode |-> Get(data, "control_mode", VOLTAGE),
                start_voltage |-> Get(data, "start_voltage", 0),
                start_current |-> Get(data, "start_current", 0),
                current_limit |-> Get(data, "current_limit", DefaultCurrentLimit),
                voltage_limit |-> Get(data, "voltage_limit", DefaultVoltageLimit),
                steps |-> [i \in 1..Len(step_data) |-> made[i].value]])

\* The arguments the operations are called with.
Names == {"Untitled Profile", "bakeout"}
RampTargets == {None, -2, 0, 4}
BuildDurations == {0, 1}

\* RampStep objects handed to add_step: each was accepted when it was made
BuiltSteps ==
    {RampStep(RAMP, 1, 4, None), RampStep(RAMP, 1, None, 4),
     RampStep(RAMP, 2, 4, 0), RampStep(HOLD, 1, 4, None)}

\* key-value structures handed to from_dict
Documents ==
    {<<>>,
     [name |-> "bakeout", control_mode |-> CURRENT, start_current |-> 4,
      steps |-> <<[type |-> RAMP, duration_sec |-> 1, target_voltage |-> 4]>>],
     [steps |-> <<[duration_sec |-> 1], [type |-> RAMP, target_current |-> 4]>>],
     [control_mode |-> VOLTAGE,
      steps |-> <<[type |-> RAMP, duration_sec |-> 2, target_voltage |-> 0],
                  [type |-> HOLD, duration_sec |-> 1]>>]}

\* RampProfile(name=..., control_mode=...): no steps yet
TrajectoryInit ==
    /\ Constructed(FALSE)
    /\ ~power_supply
    /\ traj \in {NamedProfile(name, "", RampProfile(mode, 0, 0,
                        DefaultCurrentLimit, DefaultVoltageLimit, <<>>)) :
                    name \in Names, mode \in {VOLTAGE, CURRENT}}
    /\ at = 0
    /\ setpoint = None
    /\ step_at = <<>>
    /\ validation = <<>>
    /\ reloaded = <<>>
    /\ raised = FALSE
    /\ NoNotification
    /\ NoMonitor

\* self.steps.append(step), unless making the step raised
Appended(made) ==
    /\ traj' = IF made.ok THEN [traj EXCEPT !.steps = Append(@, made.value)]
               ELSE traj
    /\ raised' = ~made.ok
    /\ reloaded' = <<>>
    /\ UNCHANGED <<power_supply, callbacks_raise, notify_vars, monitor_vars,
                   executor_vars, event_vars, thread, run, loop_vars, ctl_vars,
                   now, cmd_vars, run_profile, stop_returned, at, setpoint,
                   step_at, validation>>

\* traj.add_ramp(target_value, duration_sec)
add_ramp ==
    /\ Len(traj.steps) < MaxBuilt
    /\ \E target_value \in RampTargets, duration_sec \in BuildDurations :
        Appended(IF target_value = None THEN Raised
                 ELSE IF traj.control_mode = CURRENT
                 THEN NewRampStep(RAMP, duration_sec, None, target_value)
                 ELSE NewRampStep(RAMP, duration_sec, target_value, None))

\* traj.add_hold(duration_sec)
add_hold ==
    /\ Len(traj.steps) < MaxBuilt
    /\ \E duration_sec \in BuildDurations :
        Appended(NewRampStep(HOLD, duration_sec, None, None))

\* traj.add_step(step)
add_step ==
    /\ Len(traj.steps) < MaxBuilt
    /\ \E step \in BuiltSteps : Appended(Returned(step))

\* traj.clear()
clear ==
    /\ traj.steps # <<>>
    /\ traj' = [traj EXCEPT !.steps = <<>>]
    /\ raised' = FALSE
    /\ reloaded' = <<>>
    /\ UNCHANGED <<power_supply, callbacks_raise, notify_vars, monitor_vars,
                   executor_vars, event_vars, thread, run, loop_vars, ctl_vars,
                   now, cmd_vars, run_profile, stop_returned, at, setpoint,
                   step_at, validation>>

\* traj = RampProfile.from_dict(data)
load_dict ==
    /\ \E data \in Documents :
          LET made == from_dict(data)
          IN  /\ traj' = IF made.ok THEN made.value ELSE traj
              /\ raised' = ~made.ok
    /\ reloaded' = <<>>
    /\ UNCHANGED <<power_supply, callbacks_raise, notify_vars, monitor_vars,
                   executor_vars, event_vars, thread, run, loop_vars, ctl_vars,
                   now, cmd_vars, run_profile, stop_returned, at, setpoint,
                   step_at, validation>>

\* RampProfile.from_dict(traj.to_dict())
round_trip ==
    /\ reloaded = <<>>
    /\ reloaded' = from_dict(to_dict(traj))
    /\ UNCHANGED <<power_supply, callbacks_raise, notify_vars, monitor_vars,
                   executor_vars, event_vars, thread, run, loop_vars, ctl_vars,
                   now, cmd_vars, run_profile, stop_returned, traj, at,
                   setpoint, step_at, validation, raised>>

TrajectoryNext ==
    \/ add_ramp
    \/ add_hold
    \/ add_step
    \/ clear
    \/ load_dict
    \/ round_trip

TrajectorySpec == TrajectoryInit /\ [][TrajectoryNext]_vars

\* ------------------------------------------- _set_state: write and callback
\* The state changes of the executor with _set_state followed statement by
\* statement: the write under the lock and the on_state_change call after the
\* lock is released are two steps of the context that makes the call.  The
\* clock is left out: a loop iteration may find the trajectory finished at
\* any time, and the join of stop() may time out at any time.
Controller == 0
Contexts == {Controller} \cup Threads

\* the variables this view leaves alone
notify_frame ==
    <<callbacks_raise, fn_vars, build_vars, monitor_vars, power_supply,
      start_time, pause_time, paused_elapsed, current_setpoint,
      current_step_index, error_message, run, last_step_index, elapsed,
      lresult, wake, completions, carg, call_state, ret, result, join_start,
      now, cmd_vars, run_profile, stop_returned>>

NotifyInit ==
    /\ Constructed(FALSE)
    /\ NoEvaluation
    /\ NoMonitor
    /\ state_change = <<>>
    /\ state_writes = <<>>
    /\ setting = [c \in Contexts |-> "none"]

\* the call of the controlling context begins: name and next position
Begin(name, position) ==
    /\ cpc = "ready"
    /\ ops < MaxOps
    /\ ops' = ops + 1
    /\ op' = name
    /\ cpc' = position

\* load_profile(profile) up to its _set_state(IDLE)
begin_load ==
    /\ state # RUNNING
    /\ Begin("load", "load_state")
    /\ profile' \in {p \in ProfileIds : validate(Profiles[p])}
    /\ UNCHANGED <<notify_frame, notify_vars, state, event_vars, thread, lpc>>

\* start() up to its _set_state: ERROR when the limit command raises,
\* RUNNING otherwise; from Paused it is resume()
begin_start ==
    /\ profile # 0
    /\ state # RUNNING
    /\ FreeSlots # {}
    /\ IF state = PAUSED
       THEN /\ Begin("start", "resume_state")
            /\ pause_event' = FALSE
            /\ UNCHANGED stop_event
       ELSE \/ /\ power_supply
               /\ Begin("start", "start_error")
               /\ UNCHANGED event_vars
            \/ /\ Begin("start", "start_state")
               /\ stop_event' = FALSE
               /\ pause_event' = FALSE
    /\ UNCHANGED <<notify_frame, notify_vars, state, profile, thread, lpc>>

\* stop() up to its join
begin_stop ==
    /\ Begin("stop", "stop_join")
    /\ stop_event' = TRUE
    /\ pause_event' = TRUE
    /\ UNCHANGED <<notify_frame, notify_vars, state, profile, thread, lpc>>

\* the join of stop() returns: the loop has exited, or the timeout is over
stop_joined ==
    /\ cpc = "stop_join"
    /\ cpc' = "stop_state"
    /\ UNCHANGED <<notify_frame, notify_vars, state, profile, event_vars,
                   thread, lpc, op, ops>>

\* pause() up to its _set_state(PAUSED)
begin_pause ==
    /\ state = RUNNING
    /\ Begin("pause", "pause_state")
    /\ pause_event' = TRUE
    /\ UNCHANGED <<notify_frame, notify_vars, state, profile, stop_event,
                   thread, lpc>>

\* resume() up to its _set_state(RUNNING)
begin_resume ==
    /\ state = PAUSED
    /\ Begin("resume", "resume_state")
    /\ pause_event' = FALSE
    /\ UNCHANGED <<notify_frame, notify_vars, state, profile, stop_event,
                   thread, lpc>>

\* the new_state of the _set_state call a position stands before
NewState(position) ==
    CASE position = "load_state" -> IDLE
      [] position = "start_state" -> RUNNING
      [] position = "start_error" -> ERROR
      [] position = "stop_state" -> ABORTED
      [] position = "pause_state" -> PAUSED
      [] position = "resume_state" -> RUNNING
      [] position = "error" -> ERROR
      [] position = "completed" -> COMPLETED

SetStatePositions ==
    {"load_state", "start_state", "start_error", "stop_state", "pause_state",
     "resume_state"}

\* with self._lock: self._state = new_state
Written(new_state) ==
    /\ state' = new_state
    /\ state_writes' = Append(state_writes, new_state)

\* self._on_state_change(new_state)
Notified(new_state) == state_change' = Append(state_change, new_state)

\* _set_state in the controlling context: the write
controller_write ==
    /\ cpc \in SetStatePositions
    /\ Written(NewState(cpc))
    /\ setting' = [setting EXCEPT ![Controller] = NewState(cpc)]
    /\ cpc' = IF cpc = "start_state" THEN "start_callback" ELSE "callback"
    /\ UNCHANGED <<notify_frame, state_change, profile, event_vars, thread,
                   lpc, op, ops>>

\* _set_state in the controlling context: the callback; the call returns,
\* after start() has launched the loop thread
controller_callback ==
    /\ cpc \in {"callback", "start_callback"}
    /\ Notified(setting[Controller])
    /\ setting' = [setting EXCEPT ![Controller] = "none"]
    /\ IF cpc = "start_callback"
       THEN /\ thread' = NewSlot
            /\ lpc' = [lpc EXCEPT ![NewSlot] = "top"]
       ELSE UNCHANGED <<thread, lpc>>
    /\ cpc' = "ready"
    /\ op' = "none"
    /\ UNCHANGED <<notify_frame, state_writes, state, profile, event_vars, ops>>

\* one pass of the while of _run_loop that leaves it: the stop signal is
\* set or the trajectory is finished (break), or the setpoint command raised
loop_iteration(t) ==
    /\ lpc[t] = "top"
    /\ \/ /\ stop_event
          /\ lpc' = [lpc EXCEPT ![t] = "after"]
       \/ /\ ~stop_event /\ ~pause_event
          /\ \/ lpc' = [lpc EXCEPT ![t] = "after"]
             \/ power_supply /\ lpc' = [lpc EXCEPT ![t] = "error"]
    /\ UNCHANGED <<notify_frame, notify_vars, state, profile, event_vars,
                   thread, cpc, op, ops>>

\* after the while: if not self._stop_event.is_set()
loop_after(t) ==
    /\ lpc[t] = "after"
    /\ lpc' = [lpc EXCEPT ![t] = IF stop_event THEN "exited_stop" ELSE "completed"]
    /\ UNCHANGED <<notify_frame, notify_vars, state, profile, event_vars,
                   thread, cpc, op, ops>>

\* _set_state in a loop thread: the write
loop_write(t) ==
    /\ lpc[t] \in {"error", "completed"}
    /\ Written(NewState(lpc[t]))
    /\ setting' = [setting EXCEPT ![t] = NewState(lpc[t])]
    /\ lpc' = [lpc EXCEPT ![t] = "callback"]
    /\ UNCHANGED <<notify_frame, state_change, profile, event_vars, thread,
                   cpc, op, ops>>

\* _set_state in a loop thread: the callback; the thread ends
loop_callback(t) ==
    /\ lpc[t] = "callback"
    /\ Notified(setting[t])
    /\ setting' = [setting EXCEPT ![t] = "none"]
    /\ lpc' = [lpc EXCEPT ![t] = IF setting[t] = ERROR THEN "exited_error"
                                 ELSE "exited_done"]
    /\ UNCHANGED <<notify_frame, state_writes, state, profile, event_vars,
                   thread, cpc, op, ops>>

NotifyNext ==
    \/ begin_load
    \/ begin_start
    \/ begin_stop
    \/ stop_joined
    \/ begin_pause
    \/ begin_resume
    \/ controller_write
    \/ controller_callback
    \/ \E t \in Threads : loop_iteration(t)
    \/ \E t \in Threads : loop_after(t)
    \/ \E t \in Threads : loop_write(t)
    \/ \E t \in Threads : loop_callback(t)

NotifySpec == NotifyInit /\ [][NotifyNext]_vars

\* Fair scheduling: a call in progress of the controlling context goes on
\* (the join of stop() ends at its timeout at the latest), and a loop thread
\* that can take its next step takes it; a loop that is not held by the
\* pause signal reaches the end of its trajectory, time.sleep returning and
\* the clock advancing.  Nothing obliges a caller to make a call.
Fairness ==
    /\ WF_vars(controller_write)
    /\ WF_vars(controller_callback)
    /\ WF_vars(stop_joined)
    /\ \A t \in Threads :
          /\ WF_vars(loop_iteration(t))
          /\ WF_vars(loop_after(t))
          /\ WF_vars(loop_write(t))
          /\ WF_vars(loop_callback(t))

LiveSpec == NotifyInit /\ [][NotifyNext]_vars /\ Fairness

\* =========================================================== SafetyMonitor
\* The safety monitor of the control package (control/safety_monitor.py,
\* imported by control/__init__.py and exercised by
\* tests/test_safety_monitor.py), as its design describes it: a monitor
\* with an attached power source and registered callbacks, called by
\* MaxCallers contexts.  Temperatures are whole degrees; the warning
\* threshold is kept in percent.
OK == "ok"
WARNING == "warning"
SHUTDOWN_TRIGGERED == "shutdown_triggered"
SafetyStatus == {OK, WARNING, SHUTDOWN_TRIGGERED}

DISCONNECTED == -9999   \* the reading of a disconnected sensor
Absent == -2            \* the sensor has no entry in the readings

Sensors == {"TC1", "TC2"}
SensorOrder == <<"TC1", "TC2">>   \* the order in which the limits were set
NoSensor == "none"                \* watchdog_sensor = None
Callers == 1..MaxCallers

\* limits an operator sets, thresholds (percent), readings of a sensor
LimitChoices == {10}
ThresholdChoices == {90, 100}
Values == {Absent, None, DISCONNECTED, 10, 19, 20}
Readings(v1, v2) == [s \in Sensors |-> IF s = "TC1" THEN v1 ELSE v2]
ReadingSets ==
    {Readings(v, Absent) : v \in Values}
    \cup {Readings(Absent, v) : v \in {10, 20}}
    \cup {Readings(v, 20) : v \in {19, 20}}
NoReadings == [s \in Sensors |-> Absent]

\* SafetyMonitor(power_supply_controller=ps, auto_shutoff=auto)
SafetyMonitor(auto) ==
    [power_supply |-> TRUE, auto_shutoff |-> auto, enabled |-> TRUE,
     status |-> OK, temperature_limits |-> [s \in Sensors |-> None],
     watchdog_sensor |-> NoSensor, debounce_count |-> 1,
     warning_threshold |-> 100, violation_counts |-> [s \in Sensors |-> 0],
     event_history |-> <<>>, lock |-> 0]

\* the monitors monitoring starts with: a limit of 20 set for both sensors,
\* TC1 the watchdog sensor, a warning threshold of 90 %, and a debounce
\* count chosen
Configured ==
    {[SafetyMonitor(auto) EXCEPT !.temperature_limits = [s \in Sensors |-> 20],
                                 !.watchdog_sensor = "TC1",
                                 !.debounce_count = n,
                                 !.warning_threshold = 90] :
        auto \in BOOLEAN, n \in 1..MaxDebounce}

\* the structures configure_from_dict is called with
Configs ==
    {[sensor_limits |-> [s \in {"TC2"} |-> 10]],
     [enabled |-> FALSE, auto_shutoff |-> FALSE]}

\* SafetyEvent(sensor_name, value, limit)
SafetyEvent(s, v, limit) == [sensor_name |-> s, value |-> v, limit |-> limit]

\* a missing entry, a None value or the disconnected sentinel is skipped
Skipped(v) == v \in {Absent, None, DISCONNECTED}

\* a present, valid value >= the sensor's limit is a violation
Violation(m, s, v) == ~Skipped(v) /\ v >= m.temperature_limits[s]

\* the violation is triggering: the watchdog sensor bypasses debounce, any
\* other sensor triggers when its counter reaches the debounce threshold
Triggers(m, s, v) ==
    /\ Violation(m, s, v)
    /\ \/ s = m.watchdog_sensor
       \/ m.violation_counts[s] + 1 = m.debounce_count

\* the value exceeds warning_threshold x limit without triggering, and the
\* monitor is not already shut down
Warns(m, s, v) ==
    /\ ~Skipped(v)
    /\ ~Triggers(m, s, v)
    /\ m.status # SHUTDOWN_TRIGGERED
    /\ v * 100 > m.warning_threshold * m.temperature_limits[s]

\* mutant of Examine: a warning-level reading leaves the status as it is
Examine_no_warning(m, s, v) ==
    IF Skipped(v) THEN m
    ELSE [m EXCEPT
            !.violation_counts[s] = IF Violation(m, s, v) THEN @ + 1 ELSE 0,
            !.status = IF Triggers(m, s, v) THEN SHUTDOWN_TRIGGERED ELSE @,
            !.event_history = IF Triggers(m, s, v)
                              THEN Append(@, SafetyEvent(s, v, m.temperature_limits[s]))
                              ELSE @]

\* mutant of Examine: a safe reading leaves the sensor's counter as it is
Examine_no_reset(m, s, v) ==
    IF Skipped(v) THEN m
    ELSE [m EXCEPT
            !.violation_counts[s] = IF Violation(m, s, v) THEN @ + 1 ELSE @,
            !.status = IF Triggers(m, s, v) THEN SHUTDOWN_TRIGGERED
                       ELSE IF Warns(m, s, v) THEN WARNING ELSE @,
            !.event_history = IF Triggers(m, s, v)
                              THEN Append(@, SafetyEvent(s, v, m.temperature_limits[s]))
                              ELSE @]

\* check_limits on the reading v of sensor s: the monitor afterwards
Examine(m, s, v) ==
    IF Skipped(v) THEN m
    ELSE [m EXCEPT
            !.violation_counts[s] = IF Violation(m, s, v) THEN @ + 1 ELSE 0,
            !.status = IF Triggers(m, s, v) THEN SHUTDOWN_TRIGGERED
                       ELSE IF Warns(m, s, v) THEN WARNING ELSE @,
            !.event_history = IF Triggers(m, s, v)
                              THEN Append(@, SafetyEvent(s, v, m.temperature_limits[s]))
                              ELSE @]

\* a call a collaborator of the monitor receives
Received(name, args) == [call |-> name, args |-> args]

\* mutant of Notify: the power source is shut down whatever auto_shutoff is
Notify_always_shutoff(m, s, v) ==
    LET limit == m.temperature_limits[s]
    IN  IF Triggers(m, s, v)
        THEN <<Received("on_limit_exceeded", <<s, v, limit>>),
               Received("on_shutdown", <<SafetyEvent(s, v, limit)>>),
               Received("emergency_shutdown", <<>>)>>
        ELSE IF Warns(m, s, v)
        THEN <<Received("on_warning", <<s, v, limit>>)>>
        ELSE <<>>

\* the calls that examination makes: the warning callback; or the
\* limit-exceeded and the shutdown callbacks and, with auto_shutoff,
\* emergency_shutdown() of the power source
Notify(m, s, v) ==
    LET limit == m.temperature_limits[s]
    IN  IF Triggers(m, s, v)
        THEN <<Received("on_limit_exceeded", <<s, v, limit>>),
               Received("on_shutdown", <<SafetyEvent(s, v, limit)>>)>>
             \o (IF m.auto_shutoff
                 THEN <<Received("emergency_shutdown", <<>>)>> ELSE <<>>)
        ELSE IF Warns(m, s, v)
        THEN <<Received("on_warning", <<s, v, limit>>)>>
        ELSE <<>>

\* the sensors with a configured limit, in order
Monitored(m) == SelectSeq(SensorOrder, LAMBDA s : m.temperature_limits[s] # None)

\* a whole check_limits call made with nothing in between
RECURSIVE Scan(_, _, _, _)
Scan(m, pending, readings, all_safe) ==
    IF pending = <<>> THEN [monitor |-> m, result |-> all_safe]
    ELSE LET s == Head(pending)
         IN  Scan(Examine(m, s, readings[s]), Tail(pending), readings,
                  all_safe /\ ~Triggers(m, s, readings[s]))

check_limits_serial(m, readings) ==
    IF ~m.enabled THEN [monitor |-> m, result |-> TRUE]
    ELSE Scan(m, Monitored(m), readings, TRUE)

\* the reading is the one that brings the run of consecutive violating
\* readings of its sensor to the debounce threshold, or a violating
\* reading of the watchdog sensor
TriggeringReading(s, v) ==
    /\ Violation(monitor, s, v)
    /\ \/ s = monitor.watchdog_sensor
       \/ audit.streak[s] + 1 = monitor.debounce_count

ramp_vars == <<power_supply, callbacks_raise, fn_vars, build_vars, notify_vars,
               executor_vars, event_vars,
               thread, run, loop_vars, ctl_vars, now, cmd_vars, run_profile,
               stop_returned>>

MonitorInit ==
    /\ Constructed(FALSE)
    /\ ~power_supply
    /\ NoEvaluation
    /\ NoNotification
    /\ monitor \in Configured
    /\ serial = monitor
    /\ observed = <<>>
    /\ caller = [c \in Callers |->
                    [pc |-> "idle", readings |-> NoReadings, pending |-> <<>>,
                     all_safe |-> TRUE, returned |-> FALSE, result |-> TRUE,
                     expected |-> TRUE, triggers |-> 0, warned |-> 0]]
    /\ audit = [checks |-> 0, admins |-> 0, streak |-> [s \in Sensors |-> 0],
                overlapped |-> FALSE]

\* --------------------------------------------------- check_limits(readings)
\* a context calls check_limits (its readings are drawn when it has the
\* lock: nothing reads them before)
check_limits_call(c) ==
    /\ caller[c].pc = "idle"
    /\ audit.checks < MaxChecks
    /\ caller' = [caller EXCEPT ![c] =
                     [@ EXCEPT !.pc = "called", !.returned = FALSE,
                               !.triggers = 0, !.warned = 0]]
    /\ audit' = [audit EXCEPT !.checks = @ + 1,
                              !.overlapped = @ \/ \E d \in Callers \ {c} :
                                                     caller[d].pc # "idle"]
    /\ UNCHANGED <<ramp_vars, monitor, serial, observed>>

\* mutant of check_limits_enter: the call does not wait for the lock
check_limits_enter_unlocked(c) ==
    /\ caller[c].pc = "called"
    /\ \E r \in ReadingSets :
       LET serially == check_limits_serial(serial, r)
       IN  /\ serial' = serially.monitor
           /\ IF ~monitor.enabled
              THEN /\ caller' = [caller EXCEPT ![c] =
                                    [@ EXCEPT !.pc = "idle", !.returned = TRUE,
                                              !.result = TRUE,
                                              !.expected = serially.result]]
                   /\ UNCHANGED monitor
              ELSE /\ monitor' = [monitor EXCEPT !.lock = c]
                   /\ caller' = [caller EXCEPT ![c] =
                                    [@ EXCEPT !.pc = "scan", !.readings = r,
                                              !.pending = Monitored(monitor),
                                              !.all_safe = TRUE,
                                              !.expected = serially.result]]
    /\ observed' = <<>>
    /\ UNCHANGED <<ramp_vars, audit>>

\* the call takes the lock; a disabled monitor returns true at once
check_limits_enter(c) ==
    /\ caller[c].pc = "called"
    /\ monitor.lock = 0
    /\ \E r \in ReadingSets :
       LET serially == check_limits_serial(serial, r)
       IN  /\ serial' = serially.monitor
           /\ IF ~monitor.enabled
              THEN /\ caller' = [caller EXCEPT ![c] =
                                    [@ EXCEPT !.pc = "idle", !.returned = TRUE,
                                              !.result = TRUE,
                                              !.expected = serially.result]]
                   /\ UNCHANGED monitor
              ELSE /\ monitor' = [monitor EXCEPT !.lock = c]
                   /\ caller' = [caller EXCEPT ![c] =
                                    [@ EXCEPT !.pc = "scan", !.readings = r,
                                              !.pending = Monitored(monitor),
                                              !.all_safe = TRUE,
                                              !.expected = serially.result]]
    /\ observed' = <<>>
    /\ UNCHANGED <<ramp_vars, audit>>

\* the reading of the next monitored sensor is examined
check_limits_sensor(c) ==
    /\ caller[c].pc = "scan"
    /\ caller[c].pending # <<>>
    /\ LET s == Head(caller[c].pending)
           v == caller[c].readings[s]
       IN  /\ monitor' = Examine(monitor, s, v)
           /\ observed' = Notify(monitor, s, v)
           /\ caller' = [caller EXCEPT ![c] =
                 [@ EXCEPT !.pending = Tail(@),
                           !.all_safe = @ /\ ~Triggers(monitor, s, v),
                           !.triggers = IF TriggeringReading(s, v) THEN @ + 1 ELSE @,
                           !.warned = IF Warns(monitor, s, v) THEN @ + 1 ELSE @]]
           /\ audit' = [audit EXCEPT !.streak[s] =
                           IF Skipped(v) THEN @
                           ELSE IF Violation(monitor, s, v) THEN @ + 1 ELSE 0]
    /\ UNCHANGED <<ramp_vars, serial>>

\* mutant of check_limits_return: the call reports safe whatever it found
check_limits_return_safe(c) ==
    /\ caller[c].pc = "scan"
    /\ caller[c].pending = <<>>
    /\ monitor' = [monitor EXCEPT !.lock = 0]
    /\ caller' = [caller EXCEPT ![c] =
                     [@ EXCEPT !.pc = "idle", !.readings = NoReadings,
                               !.all_safe = TRUE, !.triggers = 0, !.warned = 0,
                               !.returned = TRUE, !.result = TRUE]]
    /\ observed' = <<>>
    /\ UNCHANGED <<ramp_vars, serial, audit>>

\* the lock is released and the call returns
check_limits_return(c) ==
    /\ caller[c].pc = "scan"
    /\ caller[c].pending = <<>>
    /\ monitor' = [monitor EXCEPT !.lock = 0]
    /\ caller' = [caller EXCEPT ![c] =
                     [@ EXCEPT !.pc = "idle", !.readings = NoReadings,
                               !.all_safe = TRUE, !.triggers = 0, !.warned = 0,
                               !.returned = TRUE, !.result = caller[c].all_safe]]
    /\ observed' = <<>>
    /\ UNCHANGED <<ramp_vars, serial, audit>>

\* --------------------------------------------- administrative operations
\* an operator calls one of them while no check holds the lock
Administer ==
    /\ monitor.lock = 0
    /\ audit.admins < MaxAdmin
    /\ audit' = [audit EXCEPT !.admins = @ + 1]
    /\ UNCHANGED <<ramp_vars, caller>>

set_temperature_limit ==
    /\ Administer
    /\ \E s \in Sensors, limit \in LimitChoices :
        /\ monitor' = [monitor EXCEPT !.temperature_limits[s] = limit]
        /\ serial' = [serial EXCEPT !.temperature_limits[s] = limit]
    /\ observed' = <<>>

remove_temperature_limit ==
    /\ Administer
    /\ \E s \in Sensors :
        /\ monitor' = [monitor EXCEPT !.temperature_limits[s] = None]
        /\ serial' = [serial EXCEPT !.temperature_limits[s] = None]
    /\ observed' = <<>>

clear_all_limits ==
    /\ Administer
    /\ monitor' = [monitor EXCEPT !.temperature_limits = [s \in Sensors |-> None]]
    /\ serial' = [serial EXCEPT !.temperature_limits = [s \in Sensors |-> None]]
    /\ observed' = <<>>

set_watchdog_sensor ==
    /\ Administer
    /\ \E w \in {"TC2", NoSensor} :
        /\ monitor' = [monitor EXCEPT !.watchdog_sensor = w]
        /\ serial' = [serial EXCEPT !.watchdog_sensor = w]
    /\ observed' = <<>>

set_debounce_count ==
    /\ Administer
    /\ \E n \in 1..MaxDebounce :
        /\ monitor' = [monitor EXCEPT !.debounce_count = n]
        /\ serial' = [serial EXCEPT !.debounce_count = n]
    /\ observed' = <<>>

set_warning_threshold ==
    /\ Administer
    /\ \E t \in ThresholdChoices :
        /\ monitor' = [monitor EXCEPT !.warning_threshold = t]
        /\ serial' = [serial EXCEPT !.warning_threshold = t]
    /\ observed' = <<>>

\* monitor.enabled = b
set_enabled ==
    /\ Administer
    /\ \E b \in BOOLEAN :
        /\ monitor' = [monitor EXCEPT !.enabled = b]
        /\ serial' = [serial EXCEPT !.enabled = b]
    /\ observed' = <<>>

\* monitor.auto_shutoff = b
set_auto_shutoff ==
    /\ Administer
    /\ \E b \in BOOLEAN :
        /\ monitor' = [monitor EXCEPT !.auto_shutoff = b]
        /\ serial' = [serial EXCEPT !.auto_shutoff = b]
    /\ observed' = <<>>

\* unspecified keys fall back to enabled = true, auto_shutoff = true
Configure(m, config) ==
    [m EXCEPT
        !.enabled = IF "enabled" \in DOMAIN config THEN config.enabled ELSE TRUE,
        !.auto_shutoff = IF "auto_shutoff" \in DOMAIN config
                         THEN config.auto_shutoff ELSE TRUE,
        !.temperature_limits =
            IF "sensor_limits" \in DOMAIN config
            THEN [s \in Sensors |-> IF s \in DOMAIN config.sensor_limits
                                    THEN config.sensor_limits[s] ELSE @[s]]
            ELSE @]

configure_from_dict ==
    /\ Administer
    /\ \E config \in Configs :
        /\ monitor' = Configure(monitor, config)
        /\ serial' = Configure(serial, config)
    /\ observed' = <<>>

clear_event_history ==
    /\ Administer
    /\ monitor' = [monitor EXCEPT !.event_history = <<>>]
    /\ serial' = [serial EXCEPT !.event_history = <<>>]
    /\ observed' = <<>>

\* mutant of emergency_shutdown: the shutdown on demand clears the status
emergency_shutdown_clears ==
    /\ Administer
    /\ observed' = <<Received("emergency_shutdown", <<>>)>>
    /\ monitor' = [monitor EXCEPT !.status = OK]
    /\ serial' = [serial EXCEPT !.status = OK]

\* the shutdown on demand: emergency_shutdown() of the attached power source
emergency_shutdown ==
    /\ Administer
    /\ observed' = <<Received("emergency_shutdown", <<>>)>>
    /\ UNCHANGED <<monitor, serial>>

\* reset(): ShutdownTriggered is cleared back to Ok
reset ==
    /\ Administer
    /\ monitor' = [monitor EXCEPT !.status = OK]
    /\ serial' = [serial EXCEPT !.status = OK]
    /\ observed' = <<>>

MonitorNext ==
    \/ \E c \in Callers : check_limits_call(c)
    \/ \E c \in Callers : check_limits_enter(c)
    \/ \E c \in Callers : check_limits_sensor(c)
    \/ \E c \in Callers : check_limits_return(c)
    \/ set_temperature_limit
    \/ remove_temperature_limit
    \/ clear_all_limits
    \/ set_watchdog_sensor
    \/ set_debounce_count
    \/ set_warning_threshold
    \/ set_enabled
    \/ set_auto_shutoff
    \/ configure_from_dict
    \/ clear_event_history
    \/ emergency_shutdown
    \/ reset

MonitorSpec == MonitorInit /\ [][MonitorNext]_vars

TypeOK ==
    /\ state \in ExecutorState
    /\ profile \in 0..Len(Profiles)
    /\ thread \in 0..MaxThreads
    /\ run \in 0..MaxThreads
    /\ now \in 0..MaxTime

\* ================================================================ claims
Terminal == {COMPLETED, ERROR, ABORTED}
Alive == {t \in Threads : is_alive(t)}

\* the three commands of a zero/off try block that nothing cut short
FullZeroOff(src, r) ==
    <<Cmd("set_voltage", 0, src, r), Cmd("set_current", 0, src, r),
      Cmd("output_off", 0, src, r)>>

\* the protective limit the claims ask for in run r: the ceiling of the
\* quantity the run's trajectory does not ramp
ExpectedLimit(r) ==
    LET p == Profiles[run_profile[r]]
    IN  IF p.control_mode = CURRENT
        THEN Cmd("set_voltage", p.voltage_limit, "start", r)
        ELSE Cmd("set_current", p.current_limit, "start", r)

\* C1: at most one scheduling-loop thread of the Executor is alive at any
\* time (ticking or pause-polling); start() never launches a second loop
\* while an earlier one has not exited.
C1_SingleLoop == Cardinality(Alive) <= 1

\* C2: load_profile called while the state is Running or Paused returns
\* false and leaves the trajectory, the state, the step index and the
\* setpoint unchanged.
C2_LoadRejectedWhileActive ==
    [][(cpc = "ready" /\ op' = "load" /\ state \in {RUNNING, PAUSED})
        => (/\ cpc' = "returned"
            /\ ret' = FALSE
            /\ UNCHANGED <<profile, state, current_step_index, current_setpoint>>)]_vars

\* C3: start() called in a terminal state (no successful load since that
\* state was entered: a successful load leaves Idle) is rejected and begins
\* no run.
C3_TerminalNeedsReload ==
    (op = "start" /\ call_state \in Terminal) => (cpc = "returned" /\ ret = FALSE)

\* C4: once stop() has returned, and until the next start(), the power
\* source receives no command but zero/off commands of stop().
C4_StopCommandsAreLast ==
    [][(stop_returned /\ stop_returned' /\ last_batch' # last_batch)
        => \A i \in 1..Len(last_batch') : last_batch'[i].src = "stop"]_vars

\* C5: stop() called while Running or Paused commands zero setpoint and
\* output-off whatever the results of its commands, and has cleared the run
\* bookkeeping and set the state Aborted when it returns.
C5_StopZeroesAndAborts ==
    [][/\ (cpc = "stop_cmds" /\ cpc' = "stop_clear" /\ power_supply
           /\ call_state \in {RUNNING, PAUSED})
          => last_batch' = FullZeroOff("stop", 0)
       /\ (cpc = "stop_state" /\ cpc' = "returned"
           /\ call_state \in {RUNNING, PAUSED})
          => (/\ state' = ABORTED
              /\ start_time' = None
              /\ pause_time' = None
              /\ paused_elapsed' = 0
              /\ current_step_index' = 0)]_vars

\* C6: in every run the first command the power source receives from
\* start() or from the loop of that run is the protective limit of the
\* quantity that is not ramped, so no setpoint of the run precedes it.
C6_LimitFirst ==
    \A r \in Threads : first_cmd[r] # NoCmd => first_cmd[r] = ExpectedLimit(r)

\* a current-mode run whose loop has sent a setpoint after the voltage limit
C6_Witness ==
    \E t \in Threads :
        /\ lpc[t] = "sent"
        /\ Profiles[run_profile[t]].control_mode = CURRENT
        /\ first_cmd[t] = Cmd("set_voltage", 9, "start", t)
        /\ last_batch = <<Cmd("set_current", 2, "loop", t)>>

\* C7: when the limit command of start() fails (raises), start() returns
\* false with the state Error, launches no loop and issues no setpoint.
C7_LimitFailureAbortsStart ==
    [][/\ (cpc = "start_limits" /\ result' = "raise")
          => (cpc' = "start_error" /\ lpc' = lpc /\ thread' = thread)
       /\ (cpc = "start_error" /\ cpc' # cpc)
          => (/\ cpc' = "returned"
              /\ ret' = FALSE
              /\ state' = ERROR
              /\ lpc' = lpc
              /\ thread' = thread
              /\ last_batch' = last_batch
              /\ ~is_alive(run))]_vars

\* start() has returned false after its limit command raised
C7_Witness ==
    /\ cpc = "returned"
    /\ op = "start"
    /\ result = "raise"
    /\ ret = FALSE
    /\ state = ERROR
    /\ last_batch = <<Cmd("set_current", 5, "start", run)>>
    /\ Alive = {}

\* C8: when the setpoint command of a tick fails (raises), the loop records
\* an error message, sets the state Error and exits: it does not retry,
\* issues no further command, and commands neither zero nor output-off.
C8_TickFailureEndsLoop ==
    [][\A t \in Threads :
        /\ (lpc[t] = "send" /\ lresult'[t] = "raise")
           => (lpc'[t] = "error" /\ error_message' = "Failed to set setpoint")
        /\ (lpc[t] = "error" /\ lpc'[t] # "error")
           => (/\ lpc'[t] = "exited_error"
               /\ state' = ERROR
               /\ last_batch' = last_batch)
        /\ (lpc[t] = "exited_error" /\ lpc'[t] # "exited_error")
           => cpc = "start_thread"]_vars

\* a loop has exited on a failed setpoint command, which is the last command
C8_Witness ==
    \E t \in Threads :
        /\ lpc[t] = "exited_error"
        /\ state = ERROR
        /\ error_message = "Failed to set setpoint"
        /\ Len(last_batch) = 1
        /\ last_batch[1].src = "loop"
        /\ last_batch[1].run = t

\* C9: a power-source command that reports failure by a false result is a
\* failure for the Executor: start() is on its error path (and returns false
\* with the state Error), and a tick ends the loop on its error path.
C9_FalseResultIsFailure ==
    /\ (op = "start" /\ result = "false")
       => (cpc = "start_error" \/ (cpc = "returned" /\ ret = FALSE))
    /\ \A t \in Threads : lresult[t] = "false" => lpc[t] = "error"

\* C10: a loop that finds the elapsed time at or past the total duration,
\* with no stop signal, commands zero setpoint and output-off (all three
\* commands unless one raises), records setpoint 0, sets the state Completed
\* and then fires the completion notification, exactly once.
C10_CompletionPath ==
    [][\A t \in Threads :
        /\ (lpc[t] = "calc" /\ lpc'[t] # "calc" /\ profile # 0
            /\ elapsed[t] >= get_total_duration(Profiles[profile]))
           => lpc'[t] = "after"
        /\ (lpc[t] = "after" /\ lpc'[t] # "after" /\ ~stop_event)
           => lpc'[t] = "zero"
        /\ (lpc[t] = "zero" /\ lpc'[t] # "zero")
           => (/\ lpc'[t] = "record"
               /\ (power_supply /\ lresult'[t] # "raise")
                  => last_batch' = FullZeroOff("complete", t))
        /\ (lpc[t] = "record" /\ lpc'[t] # "record")
           => (lpc'[t] = "completed" /\ current_setpoint' = 0)
        /\ (lpc[t] = "completed" /\ lpc'[t] # "completed")
           => (lpc'[t] = "notify" /\ state' = COMPLETED /\ completions'[t] = 0)
        /\ (lpc[t] = "notify" /\ lpc'[t] # "notify")
           => (lpc'[t] = "exited_done" /\ completions'[t] = 1)
        /\ lpc'[t] = "exited_done" => completions'[t] = 1
        /\ completions'[t] <= 1]_vars

\* a run has completed: zero/off commanded, setpoint 0, Completed, notified once
C10_Witness ==
    \E t \in Threads :
        /\ lpc[t] = "exited_done"
        /\ completions[t] = 1
        /\ state = COMPLETED
        /\ current_setpoint = 0
        /\ last_batch = FullZeroOff("complete", t)
        /\ now - start_time >= get_total_duration(Profiles[profile])

\* C11: pause() called in a state other than Running, and resume() called in
\* a state other than Paused, return false and change nothing; and no step of
\* a pause() or resume() replaces a terminal state by Paused or Running,
\* however the loop is interleaved with the call.
C11_PauseResumeGuarded ==
    [][/\ (cpc = "ready" /\ op' = "pause" /\ state # RUNNING)
          => (cpc' = "returned" /\ ret' = FALSE
              /\ UNCHANGED <<executor_vars, event_vars>>)
       /\ (cpc = "ready" /\ op' = "resume" /\ state # PAUSED)
          => (cpc' = "returned" /\ ret' = FALSE
              /\ UNCHANGED <<executor_vars, event_vars>>)
       /\ (op \in {"pause", "resume"} /\ state \in Terminal)
          => state' \notin {PAUSED, RUNNING}]_vars

\* C12: stop() called in Idle or in Aborted returns with the state value and
\* the status snapshot as they were when it was called; only zero/off
\* commands were issued.
C12_StopIdempotent ==
    [][(cpc = "stop_state" /\ cpc' = "returned" /\ call_state \in {IDLE, ABORTED})
        => (/\ state' = call_state
            /\ UNCHANGED <<profile, current_setpoint, error_message>>)]_vars

\* C13: during a run (the same start, state Running or Paused before and
\* after the step) elapsed_time() never decreases, does not change while the
\* state is Paused, and advances with the clock while the state is Running.
C13_ElapsedExcludesPauses ==
    [][(/\ start_time # None
        /\ start_time' = start_time
        /\ state \in {RUNNING, PAUSED}
        /\ state' \in {RUNNING, PAUSED})
        => (/\ get_elapsed_time' >= get_elapsed_time
            /\ (state = PAUSED /\ state' = PAUSED)
               => get_elapsed_time' = get_elapsed_time
            /\ (state = RUNNING /\ state' = RUNNING)
               => get_elapsed_time' - get_elapsed_time = now' - now)]_vars

\* the step in which loop t passes its "Notify step change" block, and
\* whether on_step_change is invoked in it
StepBlock(t) == lpc[t] = "step" /\ lpc'[t] = "send"
StepNotified(t) == StepBlock(t) /\ current_step_index # last_step_index[t]

\* C14: whenever a loop passes its step-change block, the notification fires
\* exactly when the active step of this tick differs from the step reported
\* last, it reports the active step, and the reported indices only grow.
C14_StepNotifiedOncePerChange ==
    [][\A t \in Threads :
        StepBlock(t) =>
            LET active == get_step_at_time(Profiles[run_profile[t]], elapsed[t])[1]
            IN  /\ StepNotified(t) <=> active # last_step_index[t]
                /\ StepNotified(t) => (/\ current_step_index = active
                                       /\ active > last_step_index[t])]_vars

\* C15: no step invokes a notification callback while the invoking context
\* holds the state lock.
C15_CallbacksOutsideLock == [][~callback_under_lock]_vars

\* C16: with callbacks that raise at every invocation, every step of the
\* loop that invokes a callback goes on as it does when the callback
\* returns: the step-change block to the send, the setpoint notification to
\* the sleep and the next tick, the error path to the state Error, the
\* completion path to the state Completed and the completion notification.
C16_RaisingCallbackSwallowed ==
    [][\A t \in Threads :
        /\ (lpc[t] = "step" /\ lpc'[t] # "step")
           => (lpc'[t] = "send" /\ UNCHANGED <<state, last_batch>>)
        /\ (lpc[t] = "sent" /\ lpc'[t] # "sent")
           => (lpc'[t] = "top" /\ UNCHANGED <<state, last_batch>>)
        /\ (lpc[t] = "error" /\ lpc'[t] # "error")
           => (lpc'[t] = "exited_error" /\ state' = ERROR /\ UNCHANGED last_batch)
        /\ (lpc[t] = "completed" /\ lpc'[t] # "completed")
           => (lpc'[t] = "notify" /\ state' = COMPLETED /\ UNCHANGED last_batch)
        /\ (lpc[t] = "notify" /\ lpc'[t] # "notify")
           => (lpc'[t] = "exited_done" /\ UNCHANGED <<state, last_batch>>)]_vars

\* a run whose callbacks all raised has gone through both steps to completion
C16_Witness ==
    /\ callbacks_raise
    /\ \E t \in Threads :
        /\ lpc[t] = "exited_done"
        /\ last_step_index[t] = 1
        /\ completions[t] = 1
        /\ state = COMPLETED
        /\ last_batch = FullZeroOff("complete", t)

\* C17: load_profile called (the state not being Running) with a trajectory
\* that fails validation - no segments, or a Ramp segment without the target
\* of the trajectory's control mode - returns false at once and leaves the
\* loaded trajectory and the Executor state as they were.
C17_InvalidLoadRejected ==
    [][(cpc = "ready" /\ op' = "load" /\ ~validate(Profiles[carg']))
        => (/\ cpc' = "returned"
            /\ ret' = FALSE
            /\ UNCHANGED <<executor_vars, event_vars, thread, lpc, last_batch>>)]_vars

\* the load of a Ramp without a voltage target in voltage mode was refused
\* in Completed, the trajectory loaded before still in place
C17_Witness ==
    /\ cpc = "returned"
    /\ op = "load"
    /\ ret = FALSE
    /\ Profiles[carg].steps # <<>>
    /\ ~validate(Profiles[carg])
    /\ call_state = COMPLETED
    /\ state = COMPLETED
    /\ profile = 1

\* C18: start() called with no trajectory loaded, or in Running, returns
\* false at once: no command, no change of state, no loop.  start() called
\* in Paused returns true with the effect of resume(): the pause just ended
\* is added to the paused time, the pause timestamp and the pause signal are
\* cleared, the state is Running, and no command or loop is started.
C18_StartRejectedOrResumes ==
    [][/\ (cpc = "ready" /\ op' = "start" /\ (profile = 0 \/ state = RUNNING))
          => (/\ cpc' = "returned"
              /\ ret' = FALSE
              /\ UNCHANGED <<executor_vars, event_vars, thread, lpc, last_batch>>)
       /\ (cpc = "ready" /\ op' = "start" /\ profile # 0 /\ state = PAUSED)
          => (/\ cpc' = "returned"
              /\ ret' = TRUE
              /\ state' = RUNNING
              /\ pause_event' = FALSE
              /\ pause_time' = None
              /\ paused_elapsed' = IF pause_time = None THEN paused_elapsed
                                   ELSE paused_elapsed + (now - pause_time)
              /\ UNCHANGED <<profile, start_time, current_setpoint,
                             current_step_index, error_message, stop_event,
                             thread, lpc, last_batch>>)]_vars

\* start() has resumed a run that was paused for one second
C18_Witness ==
    /\ cpc = "returned"
    /\ op = "start"
    /\ call_state = PAUSED
    /\ ret = TRUE
    /\ state = RUNNING
    /\ pause_time = None
    /\ paused_elapsed = 1
    /\ ~pause_event
    /\ Cardinality(Alive) = 1

\* start() in Running was refused
C18_WitnessRejected ==
    /\ cpc = "returned"
    /\ op = "start"
    /\ call_state = RUNNING
    /\ ret = FALSE

\* ---- the reference piecewise-linear function of C19 and C20
StartOf(p) == IF p.control_mode = CURRENT THEN p.start_current ELSE p.start_voltage

TargetOf(p, k) ==
    IF p.control_mode = CURRENT THEN p.steps[k].target_current
    ELSE p.steps[k].target_voltage

\* the time at which segment k ends (0 for k = 0)
RECURSIVE EndTime(_, _)
EndTime(p, k) == IF k = 0 THEN 0 ELSE EndTime(p, k - 1) + p.steps[k].duration_sec

\* the value at which segment k ends (the start value for k = 0)
RECURSIVE EndValue(_, _)
EndValue(p, k) ==
    IF k = 0 THEN StartOf(p)
    ELSE IF p.steps[k].step_type = RAMP THEN TargetOf(p, k)
    ELSE EndValue(p, k - 1)

\* v is the value of the reference function of trajectory p at time t
OnReference(p, t, v) ==
    LET n == Len(p.steps)
    IN  IF t <= 0 THEN v = StartOf(p)
        ELSE IF t >= EndTime(p, n) THEN v = EndValue(p, n)
        ELSE \E k \in 1..n :
                /\ EndTime(p, k - 1) <= t
                /\ t < EndTime(p, k)
                /\ IF p.steps[k].step_type = RAMP
                   THEN (v - EndValue(p, k - 1)) * p.steps[k].duration_sec
                        = (EndValue(p, k) - EndValue(p, k - 1)) * (t - EndTime(p, k - 1))
                   ELSE v = EndValue(p, k - 1)

\* C19: the value get_setpoint_at_time returns is the value of the reference
\* piecewise-linear function, for every trajectory and elapsed time of the
\* bounded set; on the trajectory [Ramp(10,10), Hold(5), Ramp(0,10)] from 0
\* it is 5, 10, 5, 0, 0 at the times 5, 12, 20, 25, 100.
C19_SetpointIsPiecewiseLinear ==
    setpoint # None =>
        /\ OnReference(traj, at, setpoint)
        /\ traj = ThreeSegmentProfile =>
            /\ at = 5 => setpoint = 5
            /\ at = 12 => setpoint = 10
            /\ at = 20 => setpoint = 5
            /\ at = 25 => setpoint = 0
            /\ at = PastEnd => setpoint = 0

\* half way down the last Ramp of the example trajectory
C19_Witness == traj = ThreeSegmentProfile /\ at = 20 /\ setpoint = 5

\* C20: for a validated trajectory and the time T at which its segment k
\* ends, value_at(T) is the ending value of segment k, and the segment that
\* begins at T starts from it: one second later a Ramp is on the line from
\* value_at(T) to its target and a Hold still has value_at(T).
C20_ContinuousAtBoundaries ==
    (setpoint # None /\ validate(traj)) =>
        \A k \in 1..Len(traj.steps) :
            at = EndTime(traj, k) =>
                /\ setpoint = EndValue(traj, k)
                /\ k < Len(traj.steps) =>
                    LET next == traj.steps[k + 1]
                        later == get_setpoint_at_time(traj, at + 1)
                    IN  IF next.step_type = RAMP
                        THEN (later - setpoint) * next.duration_sec
                             = TargetOf(traj, k + 1) - setpoint
                        ELSE later = setpoint

\* the boundary between a Ramp up and a Ramp down of two seconds each
C20_Witness ==
    /\ validate(traj)
    /\ Len(traj.steps) = 2
    /\ traj.steps[1].step_type = RAMP
    /\ traj.steps[2].step_type = RAMP
    /\ traj.steps[2].duration_sec = 2
    /\ at = EndTime(traj, 1)
    /\ setpoint = 4
    /\ get_setpoint_at_time(traj, at + 1) = 2

\* C21: validate() returns (ok, reasons) with ok true exactly when reasons
\* is empty, and reasons is non-empty exactly when the trajectory has no
\* segments, a non-positive limit, a negative start value, a Ramp segment
\* without a target for the active control mode, or a Ramp segment with a
\* negative target for it.
\* The statement of the claim, with nothing else among the causes:
NoSegments(p) == Len(p.steps) = 0
BadLimit(p) == p.current_limit <= 0 \/ p.voltage_limit <= 0
NegativeStart(p) == p.start_voltage < 0 \/ p.start_current < 0
RampWithoutTarget(p) ==
    \E k \in 1..Len(p.steps) :
        p.steps[k].step_type = RAMP /\ TargetOf(p, k) = None
NegativeTarget(p) ==
    \E k \in 1..Len(p.steps) :
        /\ p.steps[k].step_type = RAMP
        /\ TargetOf(p, k) # None
        /\ TargetOf(p, k) < 0
ListedCause(p) ==
    \/ NoSegments(p)
    \/ BadLimit(p)
    \/ NegativeStart(p)
    \/ RampWithoutTarget(p)
    \/ NegativeTarget(p)
\* what validate() reports besides
UnknownMode(p) == p.control_mode \notin {VOLTAGE, CURRENT}
BadStep(p) ==
    \E k \in 1..Len(p.steps) :
        p.steps[k].step_type \notin {RAMP, HOLD} \/ p.steps[k].duration_sec <= 0

WindowStart(p, k) == EndTime(p, k - 1)
InWindow(p, k, t) ==
    WindowStart(p, k) <= t /\ t < WindowStart(p, k) + p.steps[k].duration_sec
Clamped(t) == IF t < 0 THEN 0 ELSE t

C22_StepAtTime ==
    step_at # <<>> =>
        /\ (step_at[1] = None) <=> (at >= EndTime(traj, Len(traj.steps)))
        /\ step_at[1] # None =>
              /\ step_at[1] + 1 \in 1..Len(traj.steps)
              /\ \A k \in 1..Len(traj.steps) :
                     InWindow(traj, k, Clamped(at)) <=> (k = step_at[1] + 1)
              /\ step_at[2] = at - WindowStart(traj, step_at[1] + 1)

\* C22 as the code has it: with e = max(elapsed, 0), the sentinel is
\* returned exactly when e >= total_duration; otherwise the unique index
\* whose window contains e, together with time_into_step = e - start_i.
C22_StepAtClampedTime ==
    step_at # <<>> =>
        /\ (step_at[1] = None) <=> (Clamped(at) >= EndTime(traj, Len(traj.steps)))
        /\ step_at[1] # None =>
              /\ step_at[1] + 1 \in 1..Len(traj.steps)
              /\ \A k \in 1..Len(traj.steps) :
                     InWindow(traj, k, Clamped(at)) <=> (k = step_at[1] + 1)
              /\ step_at[2] = Clamped(at) - WindowStart(traj, step_at[1] + 1)

\* get_step_at_time has returned the second step of a trajectory, some
\* way into it
C22_Witness ==
    /\ step_at # <<>>
    /\ step_at[1] = 1
    /\ step_at[2] > 0

\* C29: when a successful load_profile returns (no loop thread being alive
\* to write the same fields), the step index is 0, the current setpoint is
\* the start value of the loaded profile's control mode (start_current in
\* current mode, start_voltage in voltage mode), the error message is
\* empty and the state is Idle.
C29_LoadResets ==
    (cpc = "returned" /\ op = "load" /\ ret /\ Alive = {}) =>
        /\ profile = carg
        /\ current_step_index = 0
        /\ current_setpoint = StartOf(Profiles[carg])
        /\ error_message = ""
        /\ state = IDLE

\* C30: start() sets the state Running before the loop of the run it
\* begins executes anything.  (1) While start() has not yet written
\* Running, the loop of that run is not alive.  (2) While the loop of that
\* run is alive and the caller of start() has not made another call, the
\* state is neither Idle nor Error.  (3) When that loop has ended on a
\* failed tick, the state is Error, not Running.  (2) and (3) are stated
\* for an Executor on which no loop of another run was ever alive together
\* with this one, so that the loop of the run is the only other writer.
BeforeRunning == {"start_limits", "start_error", "start_clear", "start_init", "start_state"}
NoOtherLoop == \A t \in Threads \ {run} : lpc[t] = "unborn"

\* the call in progress is a start() that began a run
BeganRun == op = "start" /\ call_state \notin {RUNNING, PAUSED} /\ run # 0

C30_RunningBeforeLoop ==
    /\ cpc \in BeforeRunning => ~is_alive(run)
    /\ (BeganRun /\ is_alive(run) /\ NoOtherLoop)
           => state \notin {IDLE, ERROR}
    /\ (BeganRun /\ cpc = "returned" /\ ret /\ NoOtherLoop
           /\ lpc[run] = "exited_error")
           => state = ERROR

\* a start() from Idle has returned true and the loop it launched has
\* failed on its first tick, before its first sleep
C30_Witness ==
    /\ op = "start"
    /\ cpc = "returned"
    /\ ret
    /\ call_state = IDLE
    /\ NoOtherLoop
    /\ lpc[run] = "exited_error"
    /\ wake[run] = 0
    /\ state = ERROR

\* ---------------------------------------------------------------- C23
\* the step takes the monitor out of ShutdownTriggered
LeavesShutdown ==
    /\ monitor.status = SHUTDOWN_TRIGGERED
    /\ monitor'.status # SHUTDOWN_TRIGGERED

\* C23: once the status is ShutdownTriggered, no check_limits step and no
\* administrative operation other than reset() changes it; the only step
\* that leaves ShutdownTriggered is reset(), which sets Ok, and every
\* reset() leaves the configured limits as they were.
C23_StickyUntilReset ==
    [][/\ LeavesShutdown => (reset /\ monitor'.status = OK)
       /\ reset => monitor'.temperature_limits = monitor.temperature_limits]_vars

\* a shut-down monitor whose history was cleared after the trigger and on
\* which a later check has then examined a safe reading of TC2: still shut
\* down, its limits still set
C23_Witness ==
    /\ monitor.status = SHUTDOWN_TRIGGERED
    /\ monitor.event_history = <<>>
    /\ monitor.temperature_limits["TC2"] # None
    /\ \E c \in Callers : /\ caller[c].pc = "scan"
                          /\ caller[c].pending = <<>>
                          /\ caller[c].readings["TC2"] = 10

\* ---------------------------------------------------------------- C24
\* caller c examines the reading v of sensor s in this step
Examining(c, s, v) ==
    /\ caller[c].pc = "scan"
    /\ caller[c].pending # <<>>
    /\ s = Head(caller[c].pending)
    /\ v = caller[c].readings[s]
    /\ caller'[c].pending = Tail(caller[c].pending)

\* caller c's call returns in this step
Returning(c) ==
    /\ caller[c].pc # "idle"
    /\ caller'[c].pc = "idle"

\* C24: a check_limits call returns false exactly when one of the readings
\* it examined was a triggering violation (a present, valid reading >= the
\* limit, of the watchdog sensor or bringing the sensor's run of violations
\* to the debounce threshold); a call made while enabled is false returns
\* true, and a skipped reading (missing, None, disconnected) never triggers.
C24_FalseIffTriggered ==
    [][\A c \in Callers :
        /\ Returning(c) =>
              /\ caller'[c].returned
              /\ caller'[c].result = (caller[c].triggers = 0)
              /\ ~monitor.enabled => caller'[c].result
        /\ \A s \in Sensors, v \in Values :
              (Examining(c, s, v) /\ Skipped(v)) =>
                  caller'[c].triggers = caller[c].triggers]_vars

\* a call has returned false, and another returned true
C24_Witness ==
    /\ \E c \in Callers : caller[c].returned /\ ~caller[c].result
    /\ \E c \in Callers : caller[c].returned /\ caller[c].result

\* ---------------------------------------------------------------- C25
\* the step records a trigger: one more event in the history
Triggered == Len(monitor'.event_history) = Len(monitor.event_history) + 1

CallsOf(name) == SelectSeq(observed, LAMBDA r : r.call = name)

\* C26: when check_limits examines a triggering violation, the status is
\* ShutdownTriggered afterwards, exactly one SafetyEvent (sensor, value,
\* limit) is appended to the history, the limit-exceeded and the shutdown
\* callbacks each fire once, and emergency_shutdown of the power source is
\* called once if auto_shutoff is enabled and not at all if it is disabled;
\* no step of check_limits calls emergency_shutdown while auto_shutoff is
\* disabled.
C26_TriggerEffects ==
    [][\A c \in Callers, s \in Sensors, v \in Values :
        LET limit == monitor.temperature_limits[s]
            shutdowns == Len(CallsOf("emergency_shutdown"))'
        IN  /\ (Examining(c, s, v) /\ TriggeringReading(s, v)) =>
                  /\ monitor'.status = SHUTDOWN_TRIGGERED
                  /\ monitor'.event_history =
                        Append(monitor.event_history, SafetyEvent(s, v, limit))
                  /\ Len(CallsOf("on_limit_exceeded"))' = 1
                  /\ Len(CallsOf("on_shutdown"))' = 1
                  /\ shutdowns = IF monitor.auto_shutoff THEN 1 ELSE 0
            /\ (caller[c].pc # "idle" /\ caller'[c] # caller[c]
                /\ ~monitor.auto_shutoff) => shutdowns = 0]_vars

\* a trigger with auto_shutoff enabled has just shut the power source
\* down, and an earlier trigger is in the history too
C26_Witness ==
    /\ monitor.status = SHUTDOWN_TRIGGERED
    /\ monitor.auto_shutoff
    /\ Len(monitor.event_history) = 2
    /\ Len(CallsOf("emergency_shutdown")) = 1
    /\ Len(CallsOf("on_shutdown")) = 1

\* a trigger in alert-only mode: the callbacks fired, the power source
\* received nothing
C26_WitnessAlertOnly ==
    /\ monitor.status = SHUTDOWN_TRIGGERED
    /\ ~monitor.auto_shutoff
    /\ Len(CallsOf("on_limit_exceeded")) = 1
    /\ Len(CallsOf("emergency_shutdown")) = 0

\* ---------------------------------------------------------------- C27
\* on an enabled monitor that is not shut down, the reading is above
\* warning_threshold x limit and does not trigger
WarningReading(s, v) ==
    /\ monitor.enabled
    /\ monitor.status # SHUTDOWN_TRIGGERED
    /\ ~Skipped(v)
    /\ v * 100 > monitor.warning_threshold * monitor.temperature_limits[s]
    /\ ~TriggeringReading(s, v)

\* what examining a warning-level reading does at once: status Warning, the
\* warning callback fired with (sensor, value, limit), nothing else called,
\* no history event
WarningEffects ==
    \A c \in Callers, s \in Sensors, v \in Values :
        (Examining(c, s, v) /\ WarningReading(s, v)) =>
            /\ monitor'.status = WARNING
            /\ observed' = <<Received("on_warning",
                                      <<s, v, monitor.temperature_limits[s]>>)>>
            /\ monitor'.event_history = monitor.event_history

\* C27 as stated: a warning-level reading that does not trigger has the
\* effects of a warning and makes the check_limits call it is part of
\* return true.
C27_WarningReturnsTrue ==
    [][/\ WarningEffects
       /\ \A c \in Callers :
             (Returning(c) /\ caller[c].warned > 0) => caller'[c].result]_vars

\* C27, amended: a warning-level reading that does not trigger has the
\* effects of a warning, and the check_limits call it is part of returns
\* true when no other reading of the call triggers.
C27_WarningReturnsTrueUnlessTrigger ==
    [][/\ WarningEffects
       /\ \A c \in Callers :
             (Returning(c) /\ caller[c].warned > 0 /\ caller[c].triggers = 0)
                 => caller'[c].result]_vars

\* a call whose only examined reading was warning-level is about to return
\* true: status Warning, nothing in the history
C27_Witness ==
    /\ monitor.status = WARNING
    /\ monitor.event_history = <<>>
    /\ \E c \in Callers : /\ caller[c].pc = "scan"
                          /\ caller[c].pending = <<>>
                          /\ caller[c].warned = 1
                          /\ caller[c].all_safe

\* ---------------------------------------------------------------- C28
\* no check_limits call is between taking the lock and returning
NoCheckInProgress == \A c \in Callers : caller[c].pc \in {"idle", "called"}

\* C28: whenever no check_limits call is in progress, the debounce
\* counters, the status and the history of the monitor are those the same
\* calls leave when made one after the other, in the order they took the
\* lock, and every call that has returned returned what it returns in that
\* sequential order.
C28_Serialized ==
    /\ NoCheckInProgress =>
          /\ monitor.violation_counts = serial.violation_counts
          /\ monitor.status = serial.status
          /\ monitor.event_history = serial.event_history
    /\ \A c \in Callers :
          (caller[c].pc = "idle" /\ caller[c].returned) =>
              caller[c].result = caller[c].expected

\* calls from two contexts have overlapped and all have returned: one
\* returned false, one true, a trigger is in the history and a counter
\* is not zero
C28_Witness ==
    /\ audit.overlapped
    /\ audit.checks = MaxChecks
    /\ \A c \in Callers : caller[c].pc = "idle" /\ caller[c].returned
    /\ \E c, d \in Callers : ~caller[c].result /\ caller[d].result
    /\ monitor.event_history # <<>>
    /\ \E s \in Sensors : monitor.violation_counts[s] > 0

\* ---------------------------------------------------------------- C31
\* the step in which loop t passes its "Notify setpoint change" block: the
\* setpoint-changed notification is invoked in it
SetpointNotified(t) == lpc[t] = "sent" /\ lpc'[t] # "sent"

\* the power-source command of the tick loop t is in has returned without
\* raising
CommandSucceeded(t) == lresult[t] \in {"ok", "false"}

\* C31: with a power source attached, within a tick the power-source
\* command comes first and a notification follows only on its success:
\* whenever a loop fires the step-changed or the setpoint-changed
\* notification, the command of that tick has been issued and has not
\* failed (so a tick whose command fails fires neither).
C31_NotifyAfterCommand ==
    [][\A t \in Threads :
        power_supply =>
            /\ StepNotified(t) => CommandSucceeded(t)
            /\ SetpointNotified(t) => CommandSucceeded(t)]_vars

\* ---------------------------------------------------------------- C32
\* pause() has returned with the state Paused and no other call of the
\* controlling context is made in this step
HeldPaused ==
    /\ state = PAUSED
    /\ state' = PAUSED
    /\ cpc \in {"returned", "ready"}
    /\ cpc' \in {"returned", "ready"}

\* C32: while the state is Paused, from the return of pause() until the
\* next call of the controlling context, no loop sends a setpoint command,
\* no loop fires the setpoint-changed or the step-changed notification,
\* and the current setpoint and the step index do not change.
C32_PausedHolds ==
    [][HeldPaused =>
          /\ UNCHANGED <<current_setpoint, current_step_index>>
          /\ \A t \in Threads :
                /\ ~(lpc[t] = "send" /\ lpc'[t] # "send")
                /\ ~StepNotified(t)
                /\ ~SetpointNotified(t)]_vars

\* ---------------------------------------------------------------- C37
\* no call of the controlling context is in progress
BetweenCalls == cpc = "ready"

\* C37: between the calls of the controlling context, get_elapsed_time()
\* is 0 in every state other than Running and Paused.
C37_ElapsedZeroWhenInactive ==
    (BetweenCalls /\ state \notin {RUNNING, PAUSED}) => get_elapsed_time = 0

\* ---------------------------------------------------------------- C38
\* C38: between the calls of the controlling context, the current setpoint
\* is 0 whenever the state is Completed or Aborted.
C38_ZeroSetpointWhenEnded ==
    (BetweenCalls /\ state \in {COMPLETED, ABORTED}) => current_setpoint = 0

\* ---------------------------------------------------------------- C40
\* the values trajectory p is configured with for its control mode: its
\* start value and the targets of its Ramp segments
ConfiguredValues(p) ==
    {StartOf(p)} \cup {TargetOf(p, k) : k \in {j \in 1..Len(p.steps) :
                                                 p.steps[j].step_type = RAMP}}

\* v lies between the smallest and the largest of the values of set S
Between(v, S) == (\E lo \in S : lo <= v) /\ (\E hi \in S : v <= hi)

CommandsWithinConfigured ==
    \A i \in 1..Len(last_batch) :
        last_batch[i].src = "loop" =>
            /\ last_batch[i].val >= 0
            /\ \E q \in ProfileIds : validate(Profiles[q])
                  /\ \E hi \in ConfiguredValues(Profiles[q]) \cup
                               {Profiles[q].start_voltage} :
                         last_batch[i].val <= hi

\* C36: after any sequence of add_ramp, add_hold, add_step, clear and
\* from_dict, every Ramp segment of the trajectory carries a target for the
\* trajectory's control mode.
C36_RampHasModeTarget ==
    \A i \in 1..Len(traj.steps) :
        traj.steps[i].step_type = RAMP => StepTarget(traj, traj.steps[i]) # None

\* C35: a trajectory written with to_dict and read back with from_dict is
\* read back without an error and equals the original in name, description,
\* control mode, start values, limits and segments, and so has the same
\* value at every elapsed time.
RoundTripped == reloaded # <<>>

C35_RoundTrip ==
    RoundTripped =>
        /\ reloaded.ok
        /\ reloaded.value.name = traj.name
        /\ reloaded.value.description = traj.description
        /\ reloaded.value.control_mode = traj.control_mode
        /\ reloaded.value.start_voltage = traj.start_voltage
        /\ reloaded.value.start_current = traj.start_current
        /\ reloaded.value.current_limit = traj.current_limit
        /\ reloaded.value.voltage_limit = traj.voltage_limit
        /\ reloaded.value.steps = traj.steps
        /\ \A elapsed_sec \in Times :
              get_setpoint_at_time(reloaded.value, elapsed_sec)
                  = get_setpoint_at_time(traj, elapsed_sec)

\* a named current-mode trajectory of Ramp and Hold segments was read back
C35_Witness ==
    /\ RoundTripped
    /\ reloaded.ok
    /\ traj.name = "bakeout"
    /\ traj.control_mode = CURRENT
    /\ traj.start_current = 4
    /\ Len(traj.steps) = MaxBuilt
    /\ \E i \in 1..Len(traj.steps) :
          traj.steps[i].step_type = RAMP /\ traj.steps[i].target_current # None
    /\ \E i \in 1..Len(traj.steps) : traj.steps[i].step_type = HOLD

\* C39: state-changed notifications are delivered in the order in which the
\* state writes were applied, and once every operation has finished (no call
\* of the controlling context in progress, no loop thread alive) the state
\* the latest notification carried is the state of the executor.
IsPrefix(s, t) == Len(s) <= Len(t) /\ \A i \in 1..Len(s) : s[i] = t[i]

AllFinished == cpc = "ready" /\ \A t \in Threads : ~is_alive(t)

C39_NotifiedInWriteOrder ==
    /\ IsPrefix(state_change, state_writes)
    /\ AllFinished /\ state_change # <<>> =>
          state_change[Len(state_change)] = state

\* ------------------------------- the executor and a monitor on one source
\* A RampExecutor and a SafetyMonitor built on the same power source: the
\* calls of the controlling context and the loop threads as above, and a
\* context that hands the monitor a reading that triggers a shutdown.
PlantInit ==
    /\ Constructed(FALSE)
    /\ power_supply
    /\ NoEvaluation
    /\ NoNotification
    /\ monitor \in {m \in Configured : m.debounce_count = 1}
    /\ serial = 0
    /\ observed = <<>>
    /\ caller = 0
    /\ audit = 0

\* the readings of a triggering violation: one sensor at its limit
ViolationReadings == {Readings(20, Absent), Readings(Absent, 20)}

\* check_limits(readings) with a triggering violation, made in one piece:
\* the monitor latches the shutdown and, with auto_shutoff, the power source
\* receives emergency_shutdown()
violation ==
    /\ monitor.status # SHUTDOWN_TRIGGERED
    /\ \E readings \in ViolationReadings, s \in Sensors :
          /\ Triggers(monitor, s, readings[s])
          /\ monitor' = check_limits_serial(monitor, readings).monitor
          /\ observed' = Notify(monitor, s, readings[s])
    /\ last_batch' = IF monitor.auto_shutoff
                     THEN <<Cmd("emergency_shutdown", 0, "monitor", 0)>>
                     ELSE last_batch
    /\ UNCHANGED <<power_supply, callbacks_raise, fn_vars, build_vars,
                   notify_vars, serial, caller, audit, executor_vars,
                   event_vars, thread, run, loop_vars, ctl_vars, now,
                   first_cmd, run_profile, stop_returned>>

PlantNext ==
    \/ Next
    \/ violation

PlantSpec == PlantInit /\ [][PlantNext]_vars

\* C34: a triggering violation of the SafetyMonitor, with or without the
\* emergency shutdown of the power source, changes nothing in the executor:
\* the step that latches the shutdown leaves the state, the signals, the
\* loop threads and the call in progress as they are, and with the shutdown
\* latched a loop at the top of an iteration leaves the loop only when the
\* stop signal is set, goes on into its tick otherwise, and a loop at its
\* send issues the setpoint command to the power source.
ShutdownLatched == monitor.status = SHUTDOWN_TRIGGERED

C34_ViolationLeavesExecutor ==
    [][/\ ~ShutdownLatched /\ ShutdownLatched' =>
              UNCHANGED <<executor_vars, event_vars, thread, loop_vars, ctl_vars>>
       /\ \A t \in Threads :
            /\ ShutdownLatched /\ lpc[t] = "top" /\ lpc'[t] # "top" =>
                  lpc'[t] = IF stop_event THEN "after" ELSE "calc"
            /\ ShutdownLatched /\ lpc[t] = "send" /\ lpc'[t] # "send" =>
                  last_batch' = <<SetpointCmd(t)>>]_vars

\* after the emergency shutdown of the power source the executor is still
\* Running, no stop() was called, and the command the power source received
\* last is a setpoint of the loop
C34_Witness ==
    /\ ShutdownLatched
    /\ monitor.auto_shutoff
    /\ state = RUNNING
    /\ ~stop_event
    /\ \E t \in Threads : last_batch = <<SetpointCmd(t)>> /\ lpc[t] = "sent"

\* C33: under fair scheduling every launched loop eventually exits: unless
\* the executor is left Paused forever a live loop thread exits, and a loop
\* at the top of an iteration with the stop signal set exits there, through
\* the stop path.
C33_LoopsExit ==
    \A t \in Threads :
        /\ ([]<>(state # PAUSED)) => (is_alive(t) ~> Exited(t))
        /\ (lpc[t] = "top" /\ stop_event) ~> (lpc[t] = "exited_stop")
====
